---- MODULE Spec2Model ----
(***************************************************************************)
(* Model of omgtools/problems/multiframeproblem.py (MultiFrameProblem):    *)
(* the frame construction, validation and transition engine.               *)
(*                                                                         *)
(* Lengths are in units of 0.1 (the scale-up increment of scale_up_frame   *)
(* is 1 unit).  Python floats are modelled by exact rationals <<n, d>>     *)
(* with d > 0 and gcd(n, d) = 1, so that the code's exact comparisons      *)
(* (==, <=, <) are decided exactly.                                        *)
(***************************************************************************)
EXTENDS Integers, Sequences, FiniteSets, TLC

(***************************************************************************)
(* Float arithmetic as exact rationals                                     *)
(***************************************************************************)
RECURSIVE GCD(_, _)
GCD(a, b) == IF b = 0 THEN a ELSE GCD(b, a % b)

IAbs(i) == IF i < 0 THEN -i ELSE i

\* n/d with the common divisor g taken out, the sign in the numerator
RReduce(n, d, g) == IF d < 0 THEN <<(-n) \div g, (-d) \div g>> ELSE <<n \div g, d \div g>>

RNorm(n, d) == RReduce(n, d, GCD(IAbs(n), IAbs(d)))

R(i) == <<i, 1>>
\* a + b over the common denominator a[2] * b[2] / g
RAddOver(a, b, g) == RNorm(a[1] * (b[2] \div g) + b[1] * (a[2] \div g), (a[2] \div g) * b[2])
RAdd(a, b) == RAddOver(a, b, GCD(a[2], b[2]))
RNeg(a) == <<-a[1], a[2]>>
RSub(a, b) == RAdd(a, RNeg(b))
RMul(a, b) == RNorm(a[1] * b[1], a[2] * b[2])
RDiv(a, b) == RNorm(a[1] * b[2], a[2] * b[1])
RAbs(a) == <<IAbs(a[1]), a[2]>>
RLt(a, b) == a[1] * (b[2] \div GCD(a[2], b[2])) < b[1] * (a[2] \div GCD(a[2], b[2]))
RLe(a, b) == a[1] * (b[2] \div GCD(a[2], b[2])) <= b[1] * (a[2] \div GCD(a[2], b[2]))
\* a * k < b for a positive integer k, without forming the product by k
RLtScaled(a, k, b) ==
    a[1] * (b[2] \div GCD(a[2], b[2])) <= (b[1] * (a[2] \div GCD(a[2], b[2])) - 1) \div k
RMin(a, b) == IF RLe(a, b) THEN a ELSE b
RMax(a, b) == IF RLe(a, b) THEN b ELSE a
RZero == R(0)
Pt(x, y) == <<R(x), R(y)>>

\* the result of a float division is kept to the nearest 1/float_res
float_res == 10
RFix(q) == RNorm((2 * q[1] * float_res + q[2]) \div (2 * q[2]), float_res)
PFix(p) == <<RFix(p[1]), RFix(p[2])>>

(***************************************************************************)
(* Program constants                                                       *)
(***************************************************************************)
\* veh_size: radius of the vehicle's Circle shape, 0.3
veh_size_tenths == 3
veh_size == R(veh_size_tenths)
\* scale_factor = 1.2
scale_factor == RNorm(12, 10)
\* veh_size*scale_factor, the margin used by the min_nobs builder
margin == RMul(veh_size, scale_factor)
\* the increment 0.1 of scale_up_frame
scale_step_tenths == 1
scale_step == R(scale_step_tenths)
\* frame_size (kwargs['frame_size']); the default is 2.5
frame_size_tenths == 12
frame_size == R(frame_size_tenths)
half == <<1, 2>>
quarter == <<1, 4>>

(***************************************************************************)
(* Environment: a square room [0, room_size]^2 with an n_cells x n_cells   *)
(* planner grid; obstacles are records                                     *)
(*   lim       bounding box <<xmin, ymin, xmax, ymax>> at its position     *)
(*             (shape.get_canvas_limits() + signals['position'][:,-1])     *)
(*   shape     "circle", "rect" (orientation 0), "rect_rot", "other"       *)
(*   has_traj  simulation['trajectories']['velocity'] exists               *)
(*   traj_zero all its velocity values are [0, 0]                          *)
(*   vel       signals['velocity'][:,-1]                                   *)
(*   avoid     options['avoid']                                            *)
(***************************************************************************)
room_size_tenths == 30
room_min == R(0)
room_max == R(room_size_tenths)
n_cells == 5

VARIABLES
    obstacles,      \* environment.obstacles, a sequence of obstacle records
    curr_state,     \* self.curr_state[:2]
    goal_state,     \* self.goal_state
    global_path,    \* self.global_path
    frame,          \* self.frame
    next_frame,     \* self.next_frame: [has |-> hasattr, val |-> <<>> (None) or <<frame>>]
    cnt,            \* self.cnt, the frame counter
    motion_time,    \* self.motion_time
    local_problem,  \* self.local_problem: <<>> or <<problem>>
    moving_obs,     \* self._moving_obs: [has |-> hasattr, val |-> sequence]
    frame_valid,    \* the result of check_frame in the last solve
    moving_call,    \* the last call of get_moving_obstacles_in_frame: its inputs and result
    last_op,        \* what the last control step did
    err,            \* the exception that ended the run, or "none"
    pc,             \* "new" before reinitialize, "run" after it
    steps,          \* number of control steps taken
    planner,        \* the global planner's tie-breaking preference
    problem_options \* self.problem_options, the option bag of the caller

vars == <<obstacles, curr_state, goal_state, global_path, frame, next_frame, cnt,
          motion_time, local_problem, moving_obs, frame_valid, moving_call, last_op,
          err, pc, steps, planner, problem_options>>

Last(s) == s[Len(s)]
Front(s) == SubSeq(s, 1, Len(s) - 1)
InSeq(x, s) == \E i \in 1..Len(s) : s[i] = x
\* list.index(x): the first position of x
IndexOf(x, s) == CHOOSE i \in 1..Len(s) : s[i] = x /\ \A j \in 1..(i - 1) : s[j] # x

\* squared distance_between_points
sum_of_squares(dx, dy) == RAdd(RMul(dx, dx), RMul(dy, dy))

dist2(p, q) == sum_of_squares(RSub(p[1], q[1]), RSub(p[2], q[2]))

\* the border of the limits, its width and its height given
sized_border(xmin, ymin, xmax, ymax, width, height) ==
    [width    |-> width,
     height   |-> height,
     position |-> <<RAdd(RMul(width, half), xmin), RAdd(RMul(height, half), ymin)>>,
     limits   |-> <<xmin, ymin, xmax, ymax>>]

make_border(xmin, ymin, xmax, ymax) ==
    sized_border(xmin, ymin, xmax, ymax, RSub(xmax, xmin), RSub(ymax, ymin))

\* the stationary branch of point_in_frame (time is None)
point_in_frame(point, border, distance) ==
    /\ RLe(RAdd(border.limits[1], distance), point[1])
    /\ RLe(point[1], RSub(border.limits[3], distance))
    /\ RLe(RAdd(border.limits[2], distance), point[2])
    /\ RLe(point[2], RSub(border.limits[4], distance))

\* the stationary test of get_stationary_obstacles_in_frame
is_stationary(o) == (~o.has_traj) \/ o.traj_zero

shape_supported(o) == o.shape \in {"rect", "circle"}

rect_overlap(l, o) ==
    /\ RLe(l[1], o[3])
    /\ RLe(o[1], l[3])
    /\ RLe(l[2], o[4])
    /\ RLe(o[2], l[4])

\* get_stationary_obstacles_in_frame: [err, obs], obs the set of the indices
\* in environment.obstacles of the stationary obstacles whose bounding box
\* overlaps the border
get_stationary_obstacles_in_frame(border) ==
    LET stat == {i \in 1..Len(obstacles) : is_stationary(obstacles[i])}
    IN  IF \E i \in stat : ~shape_supported(obstacles[i])
        THEN [err |-> "RuntimeError: unsupported obstacle shape", obs |-> {}]
        ELSE [err |-> "none",
              obs |-> {i \in stat : rect_overlap(border.limits, obstacles[i].lim)}]

\* the RuntimeError of get_stationary_obstacles_in_frame is raised by every
\* call, whatever the border
shape_error == get_stationary_obstacles_in_frame(make_border(room_min, room_min, room_max, room_max)).err

obstacles_in(border) == get_stationary_obstacles_in_frame(border).obs

(***************************************************************************)
(* Frames are records                                                      *)
(*   type, border (<<>> or <<border>>), waypoints, endpoint_frame (<<>> or *)
(*   <<point>>), stationary_obstacles, moving_obstacles (sets of indices)  *)
(* a missing dictionary key is the empty sequence / empty set.             *)
(***************************************************************************)
empty_frame(type) ==
    [type |-> type, border |-> <<>>, waypoints |-> <<>>, endpoint_frame |-> <<>>,
     stationary_obstacles |-> {}, moving_obstacles |-> {}]

\* update_frame_with_waypoint: the border extended towards point, compared
\* with prev_point
update_frame_with_waypoint(border, prev_point, point) ==
    make_border(IF RLt(point[1], prev_point[1]) THEN RSub(point[1], margin)
                ELSE border.limits[1],
                IF RLt(point[2], prev_point[2]) THEN RSub(point[2], margin)
                ELSE border.limits[2],
                IF RLt(prev_point[1], point[1]) THEN RAdd(point[1], margin)
                ELSE border.limits[3],
                IF RLt(prev_point[2], point[2]) THEN RAdd(point[2], margin)
                ELSE border.limits[4])

\* the search of get_min_nobs_frame for the waypoint closest to start:
\* the running minimum starts at max(room width, room height)
RECURSIVE closest_index(_, _, _, _, _)
\* the comparison of the distance d of waypoint i with the running minimum
closest_so_far(path, start, i, d2, index, d) ==
    IF RLt(d, d2) THEN closest_index(path, start, i + 1, d, i)
    ELSE closest_index(path, start, i + 1, d2, index)

closest_index(path, start, i, d2, index) ==
    IF i > Len(path) THEN index
    ELSE closest_so_far(path, start, i, d2, index, dist2(path[i], start))

\* the absorption loop of get_min_nobs_frame over global_path[index:]
RECURSIVE absorb(_, _, _, _, _)
\* a variant of absorb_extended that keeps the extended border when it
\* holds an obstacle
absorb_extended_kept(path, start, i, border, points_in_frame, ext) ==
    IF obstacles_in(ext) # {}
    THEN [border |-> ext, points |-> points_in_frame]
    ELSE absorb(path, start, i + 1, ext, Append(points_in_frame, path[i]))

\* waypoint i lies outside the border: ext is the border extended to it
absorb_extended(path, start, i, border, points_in_frame, ext) ==
    IF obstacles_in(ext) # {}
    THEN [border |-> border, points |-> points_in_frame]
    ELSE absorb(path, start, i + 1, ext, Append(points_in_frame, path[i]))

absorb(path, start, i, border, points_in_frame) ==
    IF i > Len(path) THEN [border |-> border, points |-> points_in_frame]
    ELSE IF ~point_in_frame(path[i], border, RZero)
    THEN absorb_extended(path, start, i, border, points_in_frame,
                         update_frame_with_waypoint(
                             border,
                             IF points_in_frame # <<>> THEN Last(points_in_frame) ELSE start,
                             path[i]))
    ELSE absorb(path, start, i + 1, border, Append(points_in_frame, path[i]))

\* get_min_nobs_frame(start): [err, frame]
\* the goal lies outside the seed frame and the frame extended to it holds
\* an obstacle: the frame grown over the waypoints (lines 1033-1079)
min_nobs_grown(grown) ==
    IF grown.points = <<>>
    THEN [err |-> "RuntimeError: no waypoint inside min_nobs frame",
          frame |-> empty_frame("min_nobs")]
    ELSE [err |-> "none",
          frame |-> [empty_frame("min_nobs") EXCEPT !.border = <<grown.border>>,
                                                    !.waypoints = grown.points]]

\* the goal lies outside the seed frame: direct is the frame extended to it
min_nobs_direct(start, path, seed, index, direct) ==
    IF shape_error # "none" THEN [err |-> shape_error, frame |-> empty_frame("min_nobs")]
    ELSE IF obstacles_in(direct) # {}
    THEN min_nobs_grown(absorb(path, start, index, seed, <<>>))
    ELSE [err |-> "none",
          frame |-> [empty_frame("min_nobs") EXCEPT
                         !.border = <<direct>>,
                         !.waypoints = SubSeq(path, index, Len(path))]]

\* seed is the frame around start, index the waypoint closest to start
min_nobs_seeded(start, path, seed, index) ==
    IF ~point_in_frame(Last(path), seed, RZero)
    THEN min_nobs_direct(start, path, seed, index,
                         update_frame_with_waypoint(seed, start, Last(path)))
    ELSE [err |-> "none",
          frame |-> [empty_frame("min_nobs") EXCEPT
                         !.border = <<seed>>,
                         !.waypoints = SubSeq(path, index, Len(path)),
                         !.endpoint_frame = <<Last(path)>>]]

get_min_nobs_frame(start, path) ==
    min_nobs_seeded(start, path,
                    make_border(RSub(start[1], margin), RSub(start[2], margin),
                                RAdd(start[1], margin), RAdd(start[2], margin)),
                    closest_index(path, start, 1, RMul(room_max, room_max), 1))

(***************************************************************************)
(* scale_up_frame.  Each direction returns the committed limits lim and    *)
(* the border it leaves in scaled_frame['border'].                         *)
(***************************************************************************)
RECURSIVE grow_xmax(_)
\* one step of the while loop: the side moved to xmax_new
grow_xmax_to(l, xmax_new) ==
    IF RLt(room_max, xmax_new)
    THEN [lim |-> <<l[1], l[2], room_max, l[4]>>, border |-> make_border(l[1], l[2], xmax_new, l[4])]
    ELSE IF obstacles_in(make_border(l[1], l[2], xmax_new, l[4])) = {}
    THEN grow_xmax(<<l[1], l[2], xmax_new, l[4]>>)
    ELSE [lim |-> l, border |-> make_border(l[1], l[2], l[3], l[4])]

grow_xmax(l) == grow_xmax_to(l, RAdd(l[3], scale_step))

scale_xmax(l) ==
    IF obstacles_in(make_border(l[1], l[2], room_max, l[4])) = {}
    THEN [lim |-> <<l[1], l[2], room_max, l[4]>>, border |-> make_border(l[1], l[2], room_max, l[4])]
    ELSE grow_xmax(l)

RECURSIVE grow_xmin(_)
\* one step of the while loop: the side moved to xmin_new
grow_xmin_to(l, xmin_new) ==
    IF RLt(xmin_new, room_min)
    THEN [lim |-> <<room_min, l[2], l[3], l[4]>>, border |-> make_border(xmin_new, l[2], l[3], l[4])]
    ELSE IF obstacles_in(make_border(xmin_new, l[2], l[3], l[4])) = {}
    THEN grow_xmin(<<xmin_new, l[2], l[3], l[4]>>)
    ELSE [lim |-> l, border |-> make_border(l[1], l[2], l[3], l[4])]

grow_xmin(l) == grow_xmin_to(l, RSub(l[1], scale_step))

scale_xmin(l) ==
    IF obstacles_in(make_border(room_min, l[2], l[3], l[4])) = {}
    THEN [lim |-> <<room_min, l[2], l[3], l[4]>>, border |-> make_border(room_min, l[2], l[3], l[4])]
    ELSE grow_xmin(l)

RECURSIVE grow_ymax(_)
\* one step of the while loop: the side moved to ymax_new
grow_ymax_to(l, ymax_new) ==
    IF RLt(room_max, ymax_new)
    THEN [lim |-> <<l[1], l[2], l[3], room_max>>, border |-> make_border(l[1], l[2], l[3], ymax_new)]
    ELSE IF obstacles_in(make_border(l[1], l[2], l[3], ymax_new)) = {}
    THEN grow_ymax(<<l[1], l[2], l[3], ymax_new>>)
    ELSE [lim |-> l, border |-> make_border(l[1], l[2], l[3], l[4])]

grow_ymax(l) == grow_ymax_to(l, RAdd(l[4], scale_step))

scale_ymax(l) ==
    IF obstacles_in(make_border(l[1], l[2], l[3], room_max)) = {}
    THEN [lim |-> <<l[1], l[2], l[3], room_max>>, border |-> make_border(l[1], l[2], l[3], room_max)]
    ELSE grow_ymax(l)

RECURSIVE grow_ymin(_)
\* one step of the while loop: the side moved to ymin_new
grow_ymin_to(l, ymin_new) ==
    IF RLt(ymin_new, room_min)
    THEN [lim |-> <<l[1], room_min, l[3], l[4]>>, border |-> make_border(l[1], ymin_new, l[3], l[4])]
    ELSE IF obstacles_in(make_border(l[1], ymin_new, l[3], l[4])) = {}
    THEN grow_ymin(<<l[1], ymin_new, l[3], l[4]>>)
    ELSE [lim |-> l, border |-> make_border(l[1], l[2], l[3], l[4])]

grow_ymin(l) == grow_ymin_to(l, RSub(l[2], scale_step))

scale_ymin(l) ==
    IF obstacles_in(make_border(l[1], room_min, l[3], l[4])) = {}
    THEN [lim |-> <<l[1], room_min, l[3], l[4]>>, border |-> make_border(l[1], room_min, l[3], l[4])]
    ELSE grow_ymin(l)

\* the waypoint update of scale_up_frame over global_path[index:]
RECURSIVE rescan(_, _, _, _)
rescan(path, i, border, waypoints) ==
    IF i > Len(path) THEN waypoints
    ELSE IF point_in_frame(path[i], border, RZero)
    THEN rescan(path, i + 1, border,
                IF InSeq(path[i], waypoints) THEN waypoints ELSE Append(waypoints, path[i]))
    ELSE waypoints

\* scale_up_frame(frame): [border, waypoints, lim], lim the four committed
\* limits xmin, ymin, xmax, ymax at the return
\* the waypoints of the frame scaled up to s
scaled_frame(f, path, s) ==
    [border |-> s.border,
     waypoints |-> rescan(path, IndexOf(Last(f.waypoints), path), s.border, f.waypoints),
     lim |-> s.lim]

scale_up_frame(f, path) ==
    scaled_frame(f, path,
                 scale_ymin(scale_ymax(scale_xmin(scale_xmax(f.border[1].limits).lim).lim).lim))

(***************************************************************************)
(* Reachability correction of the min_nobs builders (method 2)             *)
(***************************************************************************)
\* distance_to_border: <<dx, dy>>, negative towards the min edge
\* the smaller distance of each pair of opposite sides
nearest_sides(dist12, dist34, dist23, dist41) ==
    <<IF RLt(RAbs(dist12), RAbs(dist34)) THEN dist12 ELSE dist34,
      IF RLt(RAbs(dist23), RAbs(dist41)) THEN dist23 ELSE dist41>>

distance_to_border(point, border) ==
    nearest_sides(RNeg(RAbs(RSub(point[1], border.limits[1]))),
                  RAbs(RSub(point[1], border.limits[3])),
                  RAbs(RSub(point[2], border.limits[4])),
                  RNeg(RAbs(RSub(point[2], border.limits[2]))))

\* any(abs(d) <= self.veh_size for d in dist_to_border)
too_close(d) == RLe(RAbs(d[1]), veh_size) \/ RLe(RAbs(d[2]), veh_size)

\* the while True loop that walks back from the last waypoint; count 0
\* stands for the IndexError of waypoints[-1-count]
RECURSIVE walk_back(_, _, _)
walk_back(waypoints, border, count) ==
    IF count >= Len(waypoints) THEN 0
    ELSE IF too_close(distance_to_border(waypoints[Len(waypoints) - count], border))
    THEN walk_back(waypoints, border, count + 1)
    ELSE count

\* lines 436-481 of create_frame: the new waypoint; a division by zero is
\* an error (ZeroDivisionError for float operands, a non-finite value for
\* numpy operands)
\* float(x2-x1)/(y2-y1) and float(y2-y1)/(x2-x1)
dx_dy(p1, p2) == RDiv(RSub(p2[1], p1[1]), RSub(p2[2], p1[2]))
dy_dx(p1, p2) == RDiv(RSub(p2[2], p1[2]), RSub(p2[1], p1[1]))

\* x-direction (lines 436-458): y3 on the border side x3, l2, new_waypoint
create_frame_x_point(p1, p2, ny) == <<RAdd(RMul(RSub(ny, p1[2]), dy_dx(p1, p2)), p1[1]), ny>>

create_frame_x_moved(p1, p2, y3, l2) ==
    create_frame_x_point(p1, p2, IF RLe(p2[2], y3) THEN RSub(y3, l2) ELSE RAdd(y3, l2))

create_frame_x_crossing(p1, p2, y3, d1) ==
    create_frame_x_moved(p1, p2, y3, RDiv(RMul(margin, RSub(y3, p2[2])), d1))

create_frame_x_direction(p1, p2, l, d) ==
    create_frame_x_crossing(p1, p2,
                            IF p2[2] = p1[2] THEN p1[2]
                            ELSE RAdd(RMul(RSub(IF RLe(d[1], RZero) THEN l[1] ELSE l[3], p1[1]),
                                           dx_dy(p1, p2)), p1[2]),
                            d[1])

\* y-direction (lines 459-481): x3 on the border side y3, l2, new_waypoint
create_frame_y_point(p1, p2, nx) == <<nx, RAdd(RMul(RSub(nx, p1[1]), dx_dy(p1, p2)), p1[2])>>

create_frame_y_moved(p1, p2, x3, l2) ==
    create_frame_y_point(p1, p2, IF RLe(p2[1], x3) THEN RSub(x3, l2) ELSE RAdd(x3, l2))

create_frame_y_crossing(p1, p2, y3, d2) ==
    create_frame_y_moved(p1, p2,
                         IF p2[1] = p1[1] THEN p1[1]
                         ELSE RAdd(RMul(RSub(y3, p1[2]), dy_dx(p1, p2)), p1[1]),
                         RDiv(RMul(margin, RSub(y3, p2[2])), d2))

create_frame_y_direction(p1, p2, l, d) ==
    create_frame_y_crossing(p1, p2, IF RLe(d[2], RZero) THEN l[2] ELSE l[4], d[2])

\* d is the distance of p2 to the border
create_frame_new_waypoint(p1, p2, l, d) ==
    IF \/ RLe(RAbs(d[1]), veh_size) /\ (d[1] = RZero \/ p2[1] = p1[1])
       \/ RLe(RAbs(d[2]), veh_size) /\ (d[2] = RZero \/ p2[2] = p1[2])
    THEN [err |-> "ZeroDivisionError", point |-> p2]
    ELSE [err |-> "none",
          point |-> PFix(IF RLe(RAbs(d[2]), veh_size)
                         THEN create_frame_y_direction(p1, p2, l, d)
                         ELSE create_frame_x_direction(p1, p2, l, d))]

new_waypoint_create_frame(p1, p2, border) ==
    create_frame_new_waypoint(p1, p2, border.limits, distance_to_border(p2, border))

\* lines 942-963 of create_next_frame: the new waypoint
next_frame_x_point(p1, p2, nx) ==
    <<nx, IF p1[2] = p2[2] THEN p1[2]
          ELSE RAdd(RMul(RSub(nx, p1[1]), dy_dx(p1, p2)), p1[2])>>

next_frame_x_direction(p1, p2, l, d) ==
    next_frame_x_point(p1, p2,
                       IF RLe(d[1], RZero) THEN RAdd(l[1], margin) ELSE RSub(l[3], margin))

next_frame_y_point(p1, p2, ny) ==
    <<IF p1[1] = p2[1] THEN p1[1]
      ELSE RAdd(RMul(RSub(ny, p1[2]), dx_dy(p1, p2)), p1[1]), ny>>

next_frame_y_direction(p1, p2, l, d) ==
    next_frame_y_point(p1, p2,
                       IF RLe(d[2], RZero) THEN RAdd(l[2], margin) ELSE RSub(l[4], margin))

\* d is the distance of p2 to the border
next_frame_new_waypoint(p1, p2, l, d) ==
    IF \/ RLe(RAbs(d[1]), veh_size) /\ p1[2] # p2[2] /\ p2[1] = p1[1]
       \/ RLe(RAbs(d[2]), veh_size) /\ p1[1] # p2[1] /\ p2[2] = p1[2]
    THEN [err |-> "ZeroDivisionError", point |-> p2]
    ELSE [err |-> "none",
          point |-> PFix(IF RLe(RAbs(d[2]), veh_size)
                         THEN next_frame_y_direction(p1, p2, l, d)
                         ELSE next_frame_x_direction(p1, p2, l, d))]

new_waypoint_next_frame(p1, p2, border) ==
    next_frame_new_waypoint(p1, p2, border.limits, distance_to_border(p2, border))

\* a variant of replaced that keeps the waypoints that were too close
replaced_none(waypoints, count, nw) ==
    IF nw.err # "none" THEN [err |-> nw.err, waypoints |-> waypoints]
    ELSE [err |-> "none", waypoints |-> Append(waypoints, nw.point)]

\* method 2 of create_frame (lines 415-485): [err, waypoints]
\* the last count waypoints replaced by the new waypoint nw
replaced(waypoints, count, nw) ==
    IF nw.err # "none" THEN [err |-> nw.err, waypoints |-> waypoints]
    ELSE [err |-> "none",
          waypoints |-> Append(SubSeq(waypoints, 1, Len(waypoints) - count), nw.point)]

\* count waypoints back from the last one lies the first with clearance
create_frame_corrected(waypoints, border, count) ==
    IF count = 0 THEN [err |-> "IndexError", waypoints |-> waypoints]
    ELSE replaced(waypoints, count,
                  new_waypoint_create_frame(waypoints[Len(waypoints) - count],
                                            Last(waypoints), border))

correct_create_frame(waypoints, border) ==
    IF ~too_close(distance_to_border(Last(waypoints), border))
    THEN [err |-> "none", waypoints |-> waypoints]
    ELSE create_frame_corrected(waypoints, border, walk_back(waypoints, border, 1))

\* method 2 of create_next_frame (lines 918-967): [err, waypoints]
\* count waypoints back from the last one lies the first with clearance
next_frame_corrected(waypoints, border, count) ==
    IF count = 0 THEN [err |-> "IndexError", waypoints |-> waypoints]
    ELSE replaced(waypoints, count,
                  new_waypoint_next_frame(waypoints[Len(waypoints) - count],
                                          Last(waypoints), border))

correct_next_frame(waypoints, border) ==
    IF ~too_close(distance_to_border(Last(waypoints), border))
    THEN [err |-> "none", waypoints |-> waypoints]
    ELSE next_frame_corrected(waypoints, border, walk_back(waypoints, border, 1))

(***************************************************************************)
(* The min_nobs builders                                                   *)
(***************************************************************************)
no_next == [has |-> TRUE, val |-> <<>>]

\* create_next_frame(frame): [err, next], next = <<>> for None
\* g the frame of get_min_nobs_frame, s its scaled-up border and waypoints,
\* c the corrected waypoints
next_frame_described(g, s, c) ==
    IF c.err # "none" THEN [err |-> c.err, next |-> <<>>]
    ELSE [err |-> "none",
          next |-> <<[g.frame EXCEPT !.border = <<s.border>>,
                                     !.waypoints = c.waypoints,
                                     !.stationary_obstacles = obstacles_in(s.border),
                                     !.endpoint_frame = <<Last(c.waypoints)>>]>>]

next_frame_scaled(g, s) == next_frame_described(g, s, correct_next_frame(s.waypoints, s.border))

next_frame_found(g, path) ==
    IF g.err # "none" THEN [err |-> g.err, next |-> <<>>]
    ELSE IF shape_error # "none" THEN [err |-> shape_error, next |-> <<>>]
    ELSE next_frame_scaled(g, scale_up_frame(g.frame, path))

\* a variant of create_next_frame that never builds a frame
create_next_frame_none(f, path) == [err |-> "none", next |-> <<>>]

create_next_frame(f, path) ==
    IF f.endpoint_frame[1] = goal_state THEN [err |-> "none", next |-> <<>>]
    ELSE next_frame_found(get_min_nobs_frame(f.endpoint_frame[1], path), path)

\* the min_nobs branch of create_frame (lines 375-506):
\* [err, frame, next]; frame and next are self.frame and self.next_frame as
\* the call leaves them, also when it raises
\* done is self.frame, n the result of create_next_frame
min_nobs_finished(done, n, old_next) ==
    IF n.err # "none" THEN [err |-> n.err, frame |-> done, next |-> old_next]
    ELSE [err |-> "none", frame |-> done, next |-> [has |-> TRUE, val |-> n.next]]

min_nobs_described(done, old_next, path) ==
    min_nobs_finished(done, create_next_frame(done, path), old_next)

\* scaled is the scaled-up frame, c its corrected waypoints
min_nobs_corrected(scaled, c, old_next, path) ==
    IF c.err # "none" THEN [err |-> c.err, frame |-> scaled, next |-> old_next]
    ELSE min_nobs_described([scaled EXCEPT
                                 !.waypoints = c.waypoints,
                                 !.stationary_obstacles = obstacles_in(scaled.border[1]),
                                 !.endpoint_frame = <<Last(c.waypoints)>>],
                            old_next, path)

min_nobs_scaled_up(g, s, old_next, path) ==
    min_nobs_corrected([g.frame EXCEPT !.border = <<s.border>>, !.waypoints = s.waypoints],
                       correct_create_frame(s.waypoints, s.border), old_next, path)

min_nobs_found(g, old_frame, old_next, path) ==
    IF g.err # "none" THEN [err |-> g.err, frame |-> old_frame, next |-> old_next]
    ELSE IF shape_error # "none"
    THEN [err |-> shape_error, frame |-> g.frame, next |-> old_next]
    ELSE min_nobs_scaled_up(g, scale_up_frame(g.frame, path), old_next, path)

create_frame_min_nobs(old_frame, old_next, start, path) ==
    min_nobs_found(get_min_nobs_frame(start, path), old_frame, old_next, path)

(***************************************************************************)
(* The shift builder                                                       *)
(***************************************************************************)
move_limit == RMul(frame_size, quarter)
half_size == RMul(frame_size, half)

\* the waypoint scan of create_frame (lines 292-309); delta is the
\* <<delta_x, delta_y>> of the last point found outside the frame
RECURSIVE shift_scan(_, _, _, _)
\* point i of the path and its <<delta_x, delta_y>> to the vehicle
shift_scan_point(path, i, border, acc, point, delta, reach) ==
    IF ~point_in_frame(point, border, RZero)
    THEN IF RLt(reach, RAbs(delta[1])) \/ RLt(reach, RAbs(delta[2]))
         THEN [acc EXCEPT !.waypoint = <<point>>, !.delta = delta]
         ELSE IF point = Last(path)
         THEN shift_scan(path, i + 1, border,
                         [acc EXCEPT !.endpoint = <<point>>, !.delta = delta])
         ELSE shift_scan(path, i + 1, border,
                         [acc EXCEPT !.points = Append(@, point), !.delta = delta])
    ELSE shift_scan(path, i + 1, border, [acc EXCEPT !.points = Append(@, point)])

shift_scan(path, i, border, acc) ==
    IF i > Len(path) THEN acc
    ELSE shift_scan_point(path, i, border, acc, path[i],
                          <<RSub(path[i][1], curr_state[1]), RSub(path[i][2], curr_state[2])>>,
                          RAdd(move_limit, half_size))

\* move_frame(delta_x, delta_y, move_limit): the limits xmin, ymin, xmax, ymax
\* the distance from the vehicle to the side the frame moves away from
\* (lower for a positive delta) and to the side it moves towards
side_behind(d, move) ==
    IF ~RLt(half_size, RAbs(d)) THEN half_size
    ELSE IF RLt(RZero, d) THEN RSub(half_size, move) ELSE RAdd(half_size, move)

side_ahead(d, move) ==
    IF ~RLt(half_size, RAbs(d)) THEN half_size
    ELSE IF RLt(RZero, d) THEN RAdd(half_size, move) ELSE RSub(half_size, move)

moved_limits(delta, movex, movey) ==
    <<RMax(RSub(curr_state[1], side_behind(delta[1], movex)), room_min),
      RMax(RSub(curr_state[2], side_behind(delta[2], movey)), room_min),
      RMin(RAdd(curr_state[1], side_ahead(delta[1], movex)), room_max),
      RMin(RAdd(curr_state[2], side_ahead(delta[2], movey)), room_max)>>

move_frame(delta) ==
    moved_limits(delta,
                 RMin(move_limit, RAdd(RSub(RAbs(delta[1]), half_size), margin)),
                 RMin(move_limit, RAdd(RSub(RAbs(delta[2]), half_size), margin)))

\* intersect_line_segments and intersect_lines of basics/geometry for the
\* segment p-q and an axis-parallel side: <<>> when the segments do not
\* meet, else <<the intersection point>>
\* the lines meet at parameter t of p-q, at coordinate c along the side a..b
on_both(t, c, a, b) == RLe(RZero, t) /\ RLe(t, R(1)) /\ RLe(a, c) /\ RLe(c, b)

meet_horizontal_at(y, xa, xb, t, x) ==
    IF on_both(t, x, xa, xb) THEN <<(<<RFix(x), y>>)>> ELSE <<>>

meet_horizontal_along(p, q, y, xa, xb, t) ==
    meet_horizontal_at(y, xa, xb, t, RAdd(p[1], RMul(t, RSub(q[1], p[1]))))

meet_horizontal(p, q, y, xa, xb) ==
    IF p[2] = q[2] THEN <<>>
    ELSE meet_horizontal_along(p, q, y, xa, xb, RDiv(RSub(y, p[2]), RSub(q[2], p[2])))

meet_vertical_at(x, ya, yb, t, y) ==
    IF on_both(t, y, ya, yb) THEN <<(<<x, RFix(y)>>)>> ELSE <<>>

meet_vertical_along(p, q, x, ya, yb, t) ==
    meet_vertical_at(x, ya, yb, t, RAdd(p[2], RMul(t, RSub(q[2], p[2]))))

meet_vertical(p, q, x, ya, yb) ==
    IF p[1] = q[1] THEN <<>>
    ELSE meet_vertical_along(p, q, x, ya, yb, RDiv(RSub(x, p[1]), RSub(q[1], p[1])))

\* find_intersection_line_frame(line): <<>> stands for the ValueError
\* the first side of the loop over the border's sides that the line meets
first_met(side, others) == IF side # <<>> THEN side ELSE others

find_intersection_line_frame(p, q, border) ==
    first_met(meet_horizontal(p, q, border.limits[4], border.limits[1], border.limits[3]),
      first_met(meet_vertical(p, q, border.limits[3], border.limits[2], border.limits[4]),
        first_met(meet_horizontal(p, q, border.limits[2], border.limits[1], border.limits[3]),
                  meet_vertical(p, q, border.limits[1], border.limits[2], border.limits[4]))))

\* shift_point_back(start, end, distance=distance): start moved towards end
\* over new_length = length - move_back, clamped at 0.  With dx, dy the
\* components of end - start, new_length / length is 1 - distance / m,
\* m = length on an axis-parallel line and min(|dx|, |dy|) otherwise.
\* a variant of shifted_by without the clamp of new_length at 0
shifted_by_unclamped(start, dx, dy, ratio) ==
    PFix(<<RAdd(start[1], RMul(ratio, dx)), RAdd(start[2], RMul(ratio, dy))>>)

shifted_by(start, dx, dy, ratio) ==
    IF RLt(ratio, RZero) THEN start
    ELSE PFix(<<RAdd(start[1], RMul(ratio, dx)), RAdd(start[2], RMul(ratio, dy))>>)

shifted_over(start, dx, dy, distance, m) ==
    IF m = RZero THEN start
    ELSE shifted_by(start, dx, dy, RSub(R(1), RDiv(distance, m)))

shifted_along(start, dx, dy, distance) ==
    shifted_over(start, dx, dy, distance,
                 IF dx = RZero THEN RAbs(dy)
                 ELSE IF dy = RZero THEN RAbs(dx)
                 ELSE RMin(RAbs(dx), RAbs(dy)))

shift_point_back(start, end, distance) ==
    shifted_along(start, RSub(end[1], start[1]), RSub(end[2], start[2]), distance)

\* the frame moved away from a too close endpoint (lines 334-352): limits
\* inx, iny: the endpoint is too close in x, in y; mx, my: the moves
pushed_limits(l, d, inx, iny, mx, my) ==
    <<IF inx /\ RLe(d[1], RZero) THEN RSub(l[1], mx) ELSE l[1],
      IF iny /\ RLe(d[2], RZero) THEN RSub(l[2], my) ELSE l[2],
      IF inx /\ ~RLe(d[1], RZero) THEN RAdd(l[3], mx) ELSE l[3],
      IF iny /\ ~RLe(d[2], RZero) THEN RAdd(l[4], my) ELSE l[4]>>

\* d is the distance of the endpoint to the border
pushed_from(l, d) ==
    pushed_limits(l, d, RLe(RAbs(d[1]), veh_size), RLe(RAbs(d[2]), veh_size),
                  RMul(RSub(veh_size, RAbs(d[1])), scale_factor),
                  RMul(RSub(veh_size, RAbs(d[2])), scale_factor))

push_border(l, endpoint, border) == pushed_from(l, distance_to_border(endpoint, border))

\* the shift branch of create_frame (lines 273-372): [err, frame], frame is
\* self.frame as the call leaves it, also when it raises
\* sc the scan of the path, b2 the border after the push (lines 354-372)
shift_pushed(sc, endpoint, b2) ==
    IF shape_error # "none"
    THEN [err |-> shape_error, frame |-> [empty_frame("shift") EXCEPT !.border = <<b2>>]]
    ELSE IF sc.points = <<>>
    THEN [err |-> "IndexError", frame |-> [empty_frame("shift") EXCEPT !.border = <<b2>>]]
    ELSE [err |-> "none",
          frame |-> [empty_frame("shift") EXCEPT
                         !.border = <<b2>>,
                         !.stationary_obstacles = obstacles_in(b2),
                         !.endpoint_frame = <<endpoint>>,
                         !.waypoints = IF endpoint # Last(sc.points)
                                       THEN Append(sc.points, endpoint)
                                       ELSE sc.points]]

\* l2 the limits after the push of the border b1 with limits l1
shift_ended(sc, l1, b1, endpoint, l2) ==
    shift_pushed(sc, endpoint,
                 IF l2 = l1 THEN b1 ELSE make_border(l2[1], l2[2], l2[3], l2[4]))

shift_placed(sc, l1, b1, endpoint) ==
    shift_ended(sc, l1, b1, endpoint, push_border(l1, endpoint, b1))

\* ip the intersection of the line to the first waypoint outside with b1
shift_crossed(sc, l1, b1, ip) ==
    IF ip = <<>>
    THEN [err |-> "ValueError: no intersection point",
          frame |-> [empty_frame("shift") EXCEPT !.border = <<b1>>]]
    ELSE shift_placed(sc, l1, b1, shift_point_back(Last(sc.points), ip[1], margin))

\* the endpoint of the frame b1 (lines 311-332)
shift_moved(path, sc, l1, b1) ==
    IF sc.waypoint # <<>>
    THEN IF sc.points = <<>>
         THEN [err |-> "IndexError", frame |-> [empty_frame("shift") EXCEPT !.border = <<b1>>]]
         ELSE shift_crossed(sc, l1, b1,
                            find_intersection_line_frame(Last(sc.points), sc.waypoint[1], b1))
    ELSE shift_placed(sc, l1, b1, IF sc.endpoint # <<>> THEN sc.endpoint[1] ELSE Last(path))

shift_limited(path, sc, l1) == shift_moved(path, sc, l1, make_border(l1[1], l1[2], l1[3], l1[4]))

\* l0 the limits of the frame around the vehicle, sc the scan of the path
shift_scanned(path, l0, sc) ==
    shift_limited(path, sc, IF sc.waypoint # <<>> \/ sc.endpoint # <<>>
                            THEN move_frame(sc.delta) ELSE l0)

shift_seeded(path, l0) ==
    shift_scanned(path, l0,
                  shift_scan(path, 1, make_border(l0[1], l0[2], l0[3], l0[4]),
                             [waypoint |-> <<>>, endpoint |-> <<>>, points |-> <<>>,
                              delta |-> <<RZero, RZero>>]))

create_frame_shift(path) ==
    shift_seeded(path, <<RSub(curr_state[1], half_size), RSub(curr_state[2], half_size),
                         RAdd(curr_state[1], half_size), RAdd(curr_state[2], half_size)>>)

\* create_frame: [err, frame, next]
\* sh the result of the shift branch, which leaves self.next_frame alone
shift_built(sh, old_next) == [err |-> sh.err, frame |-> sh.frame, next |-> old_next]

create_frame(old_frame, old_next, path) ==
    IF old_frame.type = "shift" THEN shift_built(create_frame_shift(path), old_next)
    ELSE IF old_frame.type = "min_nobs"
    THEN create_frame_min_nobs(old_frame, old_next, curr_state, path)
    ELSE [err |-> "ValueError: frame type", frame |-> old_frame, next |-> old_next]

(***************************************************************************)
(* check_frame                                                             *)
(***************************************************************************)
\* curr_dist < init_dist*(1 - percentage/100.), decided on the squares:
\* curr_dist^2 * 100^2 < init_dist^2 * (100 - percentage)^2
\* curr2 * scale < init2 * share, scale / share = 100^2 / (100 - percentage)^2
\* in lowest terms
covered_share(f, q, k) ==
    RLtScaled(dist2(curr_state, f.endpoint_frame[1]), (100 * 100) \div k,
              RMul(dist2(f.waypoints[1], f.endpoint_frame[1]), R(q \div k)))

covered_squares(f, q) == covered_share(f, q, GCD(q, 100 * 100))

covered(f, percentage) == covered_squares(f, (100 - percentage) * (100 - percentage))

\* a variant of check_frame_shift with the threshold percentage/100. in
\* place of 1 - percentage/100.
check_frame_shift_remaining(f) ==
    IF f.endpoint_frame[1] # goal_state THEN ~covered(f, 20) ELSE TRUE

\* check_frame for a shift frame (lines 511-529)
check_frame_shift(f) ==
    IF f.endpoint_frame[1] # goal_state THEN ~covered(f, 80) ELSE TRUE

\* self.next_frame None makes point_in_frame fall back on self.frame
check_frame_min_nobs(f, nf) ==
    IF ~point_in_frame(goal_state, f.border[1], RZero)
    THEN IF covered(f, 99) THEN FALSE
         ELSE IF point_in_frame(curr_state,
                                IF nf.val # <<>> THEN nf.val[1].border[1] ELSE f.border[1],
                                veh_size)
         THEN FALSE
         ELSE TRUE
    ELSE TRUE

check_frame(f, nf) ==
    IF f.type = "shift" THEN check_frame_shift(f) ELSE check_frame_min_nobs(f, nf)

(***************************************************************************)
(* get_init_guess: the motion time                                         *)
(***************************************************************************)
\* vehicles[0].vmax, in units of 0.1 per second
vmax_tenths == 5
\* np.sqrt is modelled with a resolution of 1/sqrt_res, for arguments
\* whose root is below sqrt_cap/sqrt_res
sqrt_res == 10
sqrt_cap == 40000

\* the largest k in lo..hi with k*k <= n
RECURSIVE ISqrtIn(_, _, _)
ISqrtIn(n, lo, hi) ==
    IF lo >= hi THEN lo
    ELSE LET mid == (lo + hi + 1) \div 2
         IN  IF mid * mid <= n THEN ISqrtIn(n, mid, hi) ELSE ISqrtIn(n, lo, mid - 1)

ISqrt(n) == ISqrtIn(n, 0, sqrt_cap)

\* q with a denominator of at most 1000
RCoarse(q) ==
    IF q[2] <= 1000 THEN q
    ELSE <<q[1] \div (q[2] \div 1000), q[2] \div (q[2] \div 1000)>>

RSqrt(q) ==
    LET c == RCoarse(q)
        n == (c[1] \div c[2]) * sqrt_res * sqrt_res
                 + ((c[1] % c[2]) * sqrt_res * sqrt_res) \div c[2]
    IN  RNorm(ISqrt(n), sqrt_res)

\* l_x, l_y of lines 760-763: the sums of the coordinate differences of
\* consecutive waypoints
RECURSIVE sum_steps(_, _, _)
sum_steps(waypoints, i, acc) ==
    IF i >= Len(waypoints) THEN acc
    ELSE sum_steps(waypoints, i + 1,
                   <<RAdd(acc[1], RSub(waypoints[i + 1][1], waypoints[i][1])),
                     RAdd(acc[2], RSub(waypoints[i + 1][2], waypoints[i][2]))>>)

\* get_init_guess for a Holonomic vehicle: [err, waypoints, motion_time];
\* waypoints is self.frame['waypoints'] with its first element rewritten
\* l = <<l_x, l_y>>
guess_for(waypoints, l) ==
    [err |-> IF l[1] = RZero /\ l[2] = RZero
             THEN "RuntimeError: prediction for goal = current position"
             ELSE "none",
     waypoints |-> waypoints,
     motion_time |-> RDiv(RSqrt(sum_of_squares(l[1], l[2])), RMul(R(vmax_tenths), half))]

guess_along(waypoints) == guess_for(waypoints, sum_steps(waypoints, 1, <<RZero, RZero>>))

get_init_guess(f) == guess_along([f.waypoints EXCEPT ![1] = curr_state])

(***************************************************************************)
(* get_moving_obstacles_in_frame                                           *)
(***************************************************************************)
\* round() of a non-negative float
RRound(q) == (2 * q[1] + q[2]) \div (2 * q[2])

\* a variant of the moving branch that tests the point at time 0 only
point_in_frame_moving_start(point, velocity, border, time, mt) ==
    point_in_frame(point, border, RZero)

\* the moving branch of point_in_frame: N+1 samples of point + l*Ts*velocity;
\* N and Ts are computed from self.motion_time (mt), not from the argument time
point_in_frame_moving(point, velocity, border, time, mt) ==
    LET N == RRound(RDiv(mt, half)) + 1
        Ts == RDiv(mt, R(N))
    IN  \E l \in 0..N :
            point_in_frame(<<RAdd(point[1], RMul(RMul(R(l), Ts), velocity[1])),
                             RAdd(point[2], RMul(RMul(R(l), Ts), velocity[2]))>>,
                           border, RZero)

\* the moving test of get_moving_obstacles_in_frame
is_moving(o) == o.vel # <<RZero, RZero>>

\* obs_chck moved to the obstacle's position: the vertices of the bounding
\* box, preceded by the centre for a Circle
checkpoints(o) ==
    LET l == o.lim
        corners == << <<l[1], l[2]>>, <<l[1], l[4]>>, <<l[3], l[4]>>, <<l[3], l[2]>> >>
        centre == <<RMul(RAdd(l[1], l[3]), half), RMul(RAdd(l[2], l[4]), half)>>
    IN  IF o.shape = "circle" THEN <<centre>> \o corners ELSE corners

\* a variant of check_points that reports a change for every obstacle found
\* in the frame, whatever its avoid flag was
RECURSIVE check_points_always_changed(_, _, _, _, _, _, _)
check_points_always_changed(chck, i, o, border, mt, avoid_old, st) ==
    IF i > Len(chck) THEN st
    ELSE IF point_in_frame_moving(chck[i], o.vel, border, mt, mt)
    THEN [avoid |-> TRUE, change |-> TRUE]
    ELSE check_points_always_changed(chck, i + 1, o, border, mt, avoid_old,
                      IF st.avoid # FALSE THEN [avoid |-> FALSE, change |-> TRUE] ELSE st)

\* the loop over the checkpoints of one obstacle (lines 698-725):
\* st = [avoid, change] are obstacle.options['avoid'] and obs_change
RECURSIVE check_points(_, _, _, _, _, _, _)
check_points(chck, i, o, border, mt, avoid_old, st) ==
    IF i > Len(chck) THEN st
    ELSE IF point_in_frame_moving(chck[i], o.vel, border, mt, mt)
    THEN [avoid |-> TRUE, change |-> (TRUE # avoid_old)]
    ELSE check_points(chck, i + 1, o, border, mt, avoid_old,
                      IF st.avoid # FALSE THEN [avoid |-> FALSE, change |-> TRUE] ELSE st)

\* the loop over environment.obstacles (lines 669-725):
\* acc = [obs, change, moving]
RECURSIVE scan_obstacles(_, _, _, _)
\* st the result of the checkpoint loop for obstacle i
scan_obstacle(i, border, mt, acc, st) ==
    IF is_moving(acc.obs[i])
    THEN scan_obstacles(i + 1, border, mt,
                        [obs |-> [acc.obs EXCEPT ![i].avoid = st.avoid],
                         change |-> st.change,
                         moving |-> acc.moving \cup {i}])
    ELSE scan_obstacles(i + 1, border, mt, acc)

scan_obstacles(i, border, mt, acc) ==
    IF i > Len(acc.obs) THEN acc
    ELSE scan_obstacle(i, border, mt, acc,
                       check_points(checkpoints(acc.obs[i]), 1, acc.obs[i], border, mt,
                                    acc.obs[i].avoid,
                                    [avoid |-> acc.obs[i].avoid, change |-> acc.change]))

\* get_moving_obstacles_in_frame: [moving, change, obs, seen]; obs are the
\* obstacles with their new avoid flags, seen the new self._moving_obs
\* r the result of the loop over the obstacles; lines 735-737 compare the
\* number of moving obstacles with the one of the previous call
counted(seen, r) ==
    [moving |-> r.moving,
     change |-> IF seen.has /\ Cardinality(seen.val) # Cardinality(r.moving)
                THEN TRUE ELSE r.change,
     obs |-> r.obs,
     seen |-> [has |-> TRUE, val |-> r.moving]]

get_moving_obstacles_in_frame(border, obs, seen, mt) ==
    counted(seen, scan_obstacles(1, border, mt, [obs |-> obs, change |-> FALSE, moving |-> {}]))

(***************************************************************************)
(* The global planner (globalplanner.AStarPlanner): a shortest 4-connected *)
(* path over the free cells of the n_cells x n_cells grid, as the centres  *)
(* of its cells from the cell of start to the cell of goal.                *)
(***************************************************************************)
cell_size_tenths == room_size_tenths \div n_cells
Cells == (1..n_cells) \X (1..n_cells)

cell_coord(x) ==
    LET k == (x[1] \div (x[2] * cell_size_tenths)) + 1
    IN  IF k > n_cells THEN n_cells ELSE IF k < 1 THEN 1 ELSE k

cell_of(p) == <<cell_coord(p[1]), cell_coord(p[2])>>

cell_centre(c) ==
    <<RNorm(2 * c[1] * cell_size_tenths - cell_size_tenths, 2),
      RNorm(2 * c[2] * cell_size_tenths - cell_size_tenths, 2)>>

\* a cell is occupied when an obstacle's bounding box covers part of it
cell_blocked(c, obs) ==
    \E i \in 1..Len(obs) :
        /\ RLt(obs[i].lim[1], R(c[1] * cell_size_tenths))
        /\ RLt(R((c[1] - 1) * cell_size_tenths), obs[i].lim[3])
        /\ RLt(obs[i].lim[2], R(c[2] * cell_size_tenths))
        /\ RLt(R((c[2] - 1) * cell_size_tenths), obs[i].lim[4])

free_cells(obs) == {c \in Cells : ~cell_blocked(c, obs)}

neighbours(c, pref) ==
    LET ex == << <<c[1] + 1, c[2]>>, <<c[1] - 1, c[2]>> >>
        ey == << <<c[1], c[2] + 1>>, <<c[1], c[2] - 1>> >>
    IN  IF pref = "x" THEN ex \o ey ELSE ey \o ex

unreached == n_cells * n_cells

\* breadth-first search from the goal cell: dm[c] is the number of moves
\* from c to the goal, unreached when there is no path
RECURSIVE bfs(_, _, _, _)
bfs(front, dm, k, free) ==
    LET new == {c \in free : dm[c] = unreached
                             /\ \E i \in 1..4 : neighbours(c, "x")[i] \in front}
    IN  IF new = {} THEN dm
        ELSE bfs(new, [c \in Cells |-> IF c \in new THEN k + 1 ELSE dm[c]], k + 1, free)

dist_map(g, free) ==
    bfs({g}, [c \in Cells |-> IF c = g THEN 0 ELSE unreached], 0, free)

RECURSIVE descend(_, _, _, _, _)
descend(c, g, free, pref, dm) ==
    IF c = g THEN <<cell_centre(c)>>
    ELSE LET nb == neighbours(c, pref)
             ok(j) == nb[j] \in free /\ dm[nb[j]] = dm[c] - 1
             i == CHOOSE i \in 1..4 : ok(i) /\ \A j \in 1..(i - 1) : ~ok(j)
         IN  <<cell_centre(c)>> \o descend(nb[i], g, free, pref, dm)

path_exists(start, goal, obs) ==
    /\ cell_of(start) \in free_cells(obs)
    /\ cell_of(goal) \in free_cells(obs)
    /\ dist_map(cell_of(goal), free_cells(obs))[cell_of(start)] < unreached

\* global_planner.get_path(start, goal), followed by the append of goal_state
\* (lines 87-89 and 563-564)
get_path(start, goal, obs, pref) ==
    LET free == free_cells(obs)
    IN  Append(descend(cell_of(start), cell_of(goal), free, pref,
                       dist_map(cell_of(goal), free)), goal)

(***************************************************************************)
(* generate_problem: the Point2point problem of the frame.  n numbers the  *)
(* problems generated so far, term is the final velocity = 0 constraint:   *)
(* the problem includes it when its option no_term_con_der is False.  The  *)
(* options are a copy of self.problem_options (lines 1417-1419), with      *)
(* no_term_con_der set to False for the last frame (lines 1420-1421).      *)
(***************************************************************************)
no_term_con_der(f) ==
    IF f.endpoint_frame[1] = goal_state THEN FALSE ELSE problem_options.no_term_con_der

generate_problem(f, n) ==
    [n |-> n,
     room |-> f.border[1],
     obstacles |-> f.stationary_obstacles \cup f.moving_obstacles,
     term |-> ~no_term_con_der(f)]

\* local_problem.options['horizon_time'] of a fixedT problem, in seconds
horizon_time == 10

\* the record kept of a call of get_moving_obstacles_in_frame: its inputs,
\* the avoid flags and self._moving_obs before it, the obs_change it
\* returned, and whether the call before it had the same border and
\* motion time (repeat)
call_record(border, obs, seen, mt, r, previous) ==
    [n |-> previous.n + 1, border |-> <<border>>, mt |-> mt,
     avoid_before |-> [i \in 1..Len(obs) |-> obs[i].avoid],
     seen_before |-> seen, changed |-> r.change,
     repeat |-> previous.n > 0 /\ previous.border = <<border>> /\ previous.mt = mt]

(***************************************************************************)
(* The end of reinitialize (lines 99-104) and of update_frame (lines       *)
(* 582-586), after the frame cf was built for the global path:             *)
(* get_init_guess and get_moving_obstacles_in_frame.                       *)
(* [err, path, frame, next, mt, gm, called] are the attributes as the call *)
(* leaves them, also when it raises; gm is the result of the call of       *)
(* get_moving_obstacles_in_frame, if called.                               *)
(***************************************************************************)
not_scanned == [moving |-> {}, change |-> FALSE, obs |-> obstacles, seen |-> moving_obs]

\* gm the result of get_moving_obstacles_in_frame for the frame f1
scanned(path, cf, ig, f1, gm) ==
    [err |-> "none", path |-> path,
     frame |-> [f1 EXCEPT !.moving_obstacles = gm.moving], next |-> cf.next,
     mt |-> ig.motion_time, gm |-> gm, called |-> TRUE]

\* ig the result of get_init_guess, f1 the frame with its waypoints
guessed(path, cf, ig, f1) ==
    IF ig.err # "none"
    THEN [err |-> ig.err, path |-> path, frame |-> f1, next |-> cf.next,
          mt |-> motion_time, gm |-> not_scanned, called |-> FALSE]
    ELSE scanned(path, cf, ig, f1,
                 get_moving_obstacles_in_frame(f1.border[1], obstacles, moving_obs,
                                               ig.motion_time))

built(path, cf, ig) == guessed(path, cf, ig, [cf.frame EXCEPT !.waypoints = ig.waypoints])

guess_and_scan(path, cf) ==
    IF cf.err # "none"
    THEN [err |-> cf.err, path |-> path, frame |-> cf.frame, next |-> cf.next,
          mt |-> motion_time, gm |-> not_scanned, called |-> FALSE]
    ELSE built(path, cf, get_init_guess(cf.frame))

(***************************************************************************)
(* reinitialize (lines 84-111)                                             *)
(***************************************************************************)
Reinitialize ==
    /\ pc = "new"
    /\ \E path \in {get_path(curr_state, goal_state, obstacles, planner)} :
       \E u \in {guess_and_scan(path, create_frame(frame, next_frame, path))} :
           /\ global_path' = u.path
           /\ err' = u.err
           /\ frame' = u.frame
           /\ next_frame' = u.next
           /\ IF u.err # "none"
              THEN /\ pc' = "failed"
                   /\ UNCHANGED <<motion_time, obstacles, moving_obs, moving_call,
                                  local_problem>>
              ELSE /\ motion_time' = u.mt
                   /\ obstacles' = u.gm.obs
                   /\ moving_obs' = u.gm.seen
                   /\ moving_call' = call_record(u.frame.border[1], obstacles, moving_obs,
                                                 u.mt, u.gm, moving_call)
                   /\ local_problem' = <<generate_problem(u.frame, 1)>>
                   /\ pc' = "run"
    /\ last_op' = "reinitialize"
    /\ UNCHANGED <<curr_state, goal_state, cnt, frame_valid, steps, planner,
                   problem_options>>

(***************************************************************************)
(* The initial state: the state after __init__, for a bounded choice of    *)
(* the environment, the goal, the frame type and the planner.              *)
(***************************************************************************)
MaxObs == 2
MaxSteps == 3

obstacle(lim, shape, has_traj, traj_zero, vel, avoid) ==
    [lim |-> lim, shape |-> shape, has_traj |-> has_traj, traj_zero |-> traj_zero,
     vel |-> vel, avoid |-> avoid]

\* a stationary Circle in the middle of the room
block == obstacle(<<R(13), R(13), R(17), R(17)>>, "circle", FALSE, TRUE, Pt(0, 0), TRUE)
\* a thin stationary strip that ends on the upper room limit
strip == obstacle(<<R(13), RNorm(298, 10), R(17), R(30)>>, "rect", FALSE, TRUE, Pt(0, 0), TRUE)
\* a rectangle that follows a velocity trajectory
mover(a) == obstacle(<<R(25), R(13), R(29), R(17)>>, "rect", TRUE, FALSE, Pt(-2, 0), a)
\* a rectangle with an initial velocity and no trajectory
drifter(a) == obstacle(<<R(1), R(25), R(5), R(29)>>, "rect", FALSE, TRUE, Pt(0, -2), a)
\* a rectangle with a velocity trajectory that stands still at the moment
paused == obstacle(<<R(13), R(19), R(17), R(23)>>, "rect", TRUE, FALSE, Pt(0, 0), TRUE)

\* a stationary obstacle whose shape is neither Circle nor Rectangle, in a
\* corner of the room
crate == obstacle(<<R(25), R(7), R(29), R(11)>>, "polyhedron", FALSE, TRUE, Pt(0, 0), TRUE)
\* an obstacle of that shape that follows a velocity trajectory
glider == obstacle(<<R(25), R(1), R(29), R(5)>>, "polyhedron", TRUE, FALSE, Pt(-2, 0), TRUE)

\* a small stationary rectangle next to the seed frame of the start
\* (0.8, 0.8), off the cells of the paths from that start
peg == obstacle(<<RNorm(128, 10), RNorm(45, 10), R(13), RNorm(55, 10)>>, "rect",
                FALSE, TRUE, Pt(0, 0), TRUE)

Catalogue ==
    <<block, strip, paused, mover(TRUE), mover(FALSE), drifter(TRUE), crate, glider, peg>>

RECURSIVE pick(_, _)
pick(idx, i) ==
    IF i > Len(Catalogue) THEN <<>>
    ELSE (IF i \in idx THEN <<Catalogue[i]>> ELSE <<>>) \o pick(idx, i + 1)

\* the environments: at most MaxObs obstacles of the catalogue, no two at
\* the same place
ObstacleLists ==
    {pick(idx, 1) : idx \in {s \in SUBSET (1..Len(Catalogue)) :
                                /\ Cardinality(s) <= MaxObs
                                /\ \A i \in s, j \in s :
                                       i # j => Catalogue[i].lim # Catalogue[j].lim}}

Starts == {Pt(3, 3), Pt(8, 8)}
\* the option bags of the caller: no_term_con_der True or False
OptionBags == [no_term_con_der : BOOLEAN]
\* the last goal lies up and to the left of the centre of its cell, just
\* above the seed frame of the start (0.8, 0.8)
Goals == {Pt(14, 10), Pt(26, 28), Pt(20, 22), Pt(22, 22), <<RNorm(208, 10), RNorm(118, 10)>>}

no_call ==
    [n |-> 0, border |-> <<>>, mt |-> RZero, avoid_before |-> <<>>,
     seen_before |-> [has |-> FALSE, val |-> {}], changed |-> FALSE, repeat |-> FALSE]

Init ==
    /\ obstacles \in ObstacleLists
    /\ curr_state \in Starts
    /\ goal_state \in Goals
    /\ path_exists(curr_state, goal_state, obstacles)
    /\ planner \in {"x", "y"}
    /\ problem_options \in OptionBags
    /\ frame \in {empty_frame("shift"), empty_frame("min_nobs")}
    /\ global_path = <<>>
    /\ next_frame = [has |-> FALSE, val |-> <<>>]
    /\ cnt = 1
    /\ motion_time = RZero
    /\ local_problem = <<>>
    /\ moving_obs = [has |-> FALSE, val |-> {}]
    /\ frame_valid = TRUE
    /\ moving_call = no_call
    /\ last_op = "init"
    /\ err = "none"
    /\ pc = "new"
    /\ steps = 0

\* a variant of has_next_frame that never finds a stored NextFrame
never_next_frame == FALSE

\* hasattr(self, 'next_frame') of solve and next_frame is not None of
\* update_frame: a NextFrame is stored
has_next_frame == next_frame.has /\ next_frame.val # <<>>

\* nn the result of create_next_frame for the stored NextFrame (lines
\* 566-572): the NextFrame becomes the frame once nn is built
promoted(nn) ==
    [err |-> nn.err,
     frame |-> IF nn.err = "none" THEN next_frame.val[1] ELSE frame,
     next |-> IF nn.err = "none" THEN [has |-> TRUE, val |-> nn.next] ELSE next_frame]

\* lines 566-580: the frame for the new global path
next_or_new_frame(promote, path) ==
    IF promote THEN promoted(create_next_frame(next_frame.val[1], path))
    ELSE create_frame(frame, next_frame, path)

planned(promote, path) == guess_and_scan(path, next_or_new_frame(promote, path))

\* update_frame (lines 555-589) with next_frame is not None = promote:
\* [err, path, frame, next, mt, gm, called] as guess_and_scan
update_frame(promote) == planned(promote, get_path(curr_state, goal_state, obstacles, planner))

\* the positions signals['pose'][:,-1] can hold after a step in frame f
positions(f) ==
    {curr_state, f.waypoints[Len(f.waypoints)], f.waypoints[(Len(f.waypoints) + 1) \div 2]}

\* a variant of stop_criterium that reports arrival at the endpoint of any
\* frame
stop_criterium_any_frame == curr_state = frame.endpoint_frame[1]

\* stop_criterium (lines 200-207); the local problem's stop criterium
\* holds when the vehicle is at its goal
stop_criterium ==
    IF frame.endpoint_frame[1] = goal_state THEN curr_state = goal_state ELSE FALSE

(***************************************************************************)
(* solve (lines 113-174)                                                   *)
(***************************************************************************)
\* the frame was not valid (lines 117-133)
solve_update ==
    \E u \in {update_frame(has_next_frame)} :
        /\ cnt' = cnt + 1
        /\ global_path' = u.path
        /\ frame' = u.frame
        /\ next_frame' = u.next
        /\ motion_time' = u.mt
        /\ obstacles' = u.gm.obs
        /\ moving_obs' = u.gm.seen
        /\ moving_call' = IF u.called
                          THEN call_record(u.frame.border[1], obstacles, moving_obs,
                                           u.mt, u.gm, moving_call)
                          ELSE moving_call
        /\ err' = u.err
        /\ last_op' = IF has_next_frame THEN "promote" ELSE "rebuild"
        /\ IF u.err # "none"
           THEN /\ pc' = "failed"
                /\ UNCHANGED <<local_problem, curr_state>>
           ELSE /\ pc' = "run"
                /\ local_problem' = <<generate_problem(u.frame, local_problem[1].n + 1)>>
                /\ curr_state' \in positions(u.frame)

\* a variant of solve_keep that never makes a new local problem
solve_keep_same ==
    \E mt \in {R(horizon_time)} :
    \E gm \in {get_moving_obstacles_in_frame(frame.border[1], obstacles, moving_obs, mt)} :
        /\ motion_time' = mt
        /\ frame' = [frame EXCEPT !.moving_obstacles = gm.moving]
        /\ obstacles' = gm.obs
        /\ moving_obs' = gm.seen
        /\ moving_call' = call_record(frame.border[1], obstacles, moving_obs,
                                      mt, gm, moving_call)
        /\ local_problem' = local_problem
        /\ last_op' = "valid"
        /\ curr_state' \in positions(frame)
        /\ UNCHANGED <<cnt, global_path, next_frame, err, pc>>

\* the frame is still valid (lines 135-160)
solve_keep ==
    \E mt \in {R(horizon_time)} :
    \E gm \in {get_moving_obstacles_in_frame(frame.border[1], obstacles, moving_obs, mt)} :
    \E fv \in {[frame EXCEPT !.moving_obstacles = gm.moving]} :
        /\ motion_time' = mt
        /\ frame' = fv
        /\ obstacles' = gm.obs
        /\ moving_obs' = gm.seen
        /\ moving_call' = call_record(frame.border[1], obstacles, moving_obs,
                                      mt, gm, moving_call)
        /\ local_problem' = IF gm.change
                            THEN <<generate_problem(fv, local_problem[1].n + 1)>>
                            ELSE local_problem
        /\ last_op' = "valid"
        /\ curr_state' \in positions(fv)
        /\ UNCHANGED <<cnt, global_path, next_frame, err, pc>>

Solve ==
    /\ pc = "run"
    /\ steps < MaxSteps
    /\ ~stop_criterium
    /\ \E valid \in {check_frame(frame, next_frame)} :
           /\ frame_valid' = valid
           /\ IF ~valid THEN solve_update ELSE solve_keep
    /\ steps' = steps + 1
    /\ UNCHANGED <<goal_state, planner, problem_options>>

\* the vehicle has arrived: the simulation loop ends and final() is called
Final ==
    /\ pc = "run"
    /\ stop_criterium
    /\ pc' = "done"
    /\ UNCHANGED <<obstacles, curr_state, goal_state, global_path, frame, next_frame, cnt,
                   motion_time, local_problem, moving_obs, frame_valid, moving_call,
                   last_op, err, steps, planner, problem_options>>

Next == Reinitialize \/ Solve \/ Final

Spec == Init /\ [][Next]_vars

(***************************************************************************)
(* Properties                                                              *)
(***************************************************************************)
\* the frames the program holds after a construction or a step that
\* succeeded: the active frame and the stored NextFrame
Committed == IF pc \in {"run", "done"} THEN <<frame>> \o next_frame.val ELSE <<>>

\* the signed distances of the terminal waypoint of f to the nearer x-edge
\* and the nearer y-edge of its border
clearance(f) == distance_to_border(f.waypoints[Len(f.waypoints)], f.border[1])

\* C1: every committed min-nobs frame, active or NextFrame, has a border that
\* overlaps the bounding box of no stationary obstacle
C1_NoStationaryObstacleInBorder ==
    \A i \in 1..Len(Committed) :
        Committed[i].type = "min_nobs" =>
            \A k \in 1..Len(obstacles) :
                is_stationary(obstacles[k]) =>
                    ~rect_overlap(Committed[i].border[1].limits, obstacles[k].lim)

\* C2: every waypoint of every committed frame, of either builder, lies
\* inside the limits of the frame's border, inclusive, with margin 0
C2_WaypointsInsideBorder ==
    \A i \in 1..Len(Committed) :
        \A j \in 1..Len(Committed[i].waypoints) :
            point_in_frame(Committed[i].waypoints[j], Committed[i].border[1], RZero)

\* C3: the terminal waypoint of every committed frame whose endpoint is not
\* the goal is strictly further than veh_size from the nearer x-edge and
\* from the nearer y-edge of the border
C3_TerminalWaypointClear ==
    \A i \in 1..Len(Committed) :
        Committed[i].endpoint_frame[1] # goal_state =>
            /\ RLt(veh_size, RAbs(clearance(Committed[i])[1]))
            /\ RLt(veh_size, RAbs(clearance(Committed[i])[2]))

\* the last call of get_moving_obstacles_in_frame left an avoid flag
\* different from its value before the call
flipped == \E i \in 1..Len(obstacles) : obstacles[i].avoid # moving_call.avoid_before[i]

\* the number of moving obstacles differs from that of the call before
count_differs ==
    /\ moving_call.seen_before.has
    /\ Cardinality(moving_call.seen_before.val) # Cardinality(moving_obs.val)

\* C4: the last call of get_moving_obstacles_in_frame returned changed = True
\* if and only if it flipped the avoid flag of an obstacle or the number of
\* moving obstacles differs from that of the call before
C4_ChangedIffFlipOrCount ==
    moving_call.n > 0 => (moving_call.changed <=> (flipped \/ count_differs))

\* C5: a call of get_moving_obstacles_in_frame that follows a call with the
\* same border, motion time and obstacles returns changed = False
C5_RepeatedCallUnchanged == moving_call.repeat => ~moving_call.changed

\* a repeated call was made with a moving obstacle that is avoided
C5_Witness == moving_call.repeat /\ \E i \in moving_obs.val : obstacles[i].avoid

\* C6: in a control step every obstacle is accepted by exactly one of the
\* stationary test and the moving test
C6_ExactlyOneClass ==
    pc = "run" =>
        \A i \in 1..Len(obstacles) : is_stationary(obstacles[i]) # is_moving(obstacles[i])

\* C7: a control step that ends in a fatal error leaves the active frame,
\* the NextFrame, the global path, the local sub-problem and the frame
\* counter as they were before the step
C7_FailedStepInstallsNothing ==
    [][(pc = "run" /\ pc' = "failed") =>
           /\ frame' = frame
           /\ next_frame' = next_frame
           /\ global_path' = global_path
           /\ local_problem' = local_problem
           /\ cnt' = cnt]_vars

\* the vehicle is closer to the endpoint of the active frame than 1% of the
\* distance from the frame's first waypoint to the endpoint
nearly_at_endpoint ==
    RLtScaled(dist2(curr_state, frame.endpoint_frame[1]), 100 * 100,
              dist2(frame.waypoints[1], frame.endpoint_frame[1]))

\* the vehicle is inside the border of the NextFrame shrunk by veh_size
inside_next_frame ==
    /\ next_frame.val # <<>>
    /\ point_in_frame(curr_state, next_frame.val[1].border[1], veh_size)

\* C8: a control step finds a min-nobs frame invalid exactly when the
\* frame's endpoint is not the goal and the vehicle is nearly at the endpoint
\* or inside the shrunk NextFrame
C8_MinNobsValidity ==
    [][(pc = "run" /\ steps' = steps + 1 /\ frame.type = "min_nobs") =>
           (frame_valid' = ~(/\ frame.endpoint_frame[1] # goal_state
                             /\ (nearly_at_endpoint \/ inside_next_frame)))]_vars

\* C9: a control step finds a shift frame invalid exactly when the frame's
\* endpoint is not the goal and the distance of the vehicle to the endpoint
\* is strictly less than 0.2 times the distance of the frame's first
\* waypoint to the endpoint (on the squares: 25 times the one less than the
\* other)
C9_ShiftValidity ==
    [][(pc = "run" /\ steps' = steps + 1 /\ frame.type = "shift") =>
           (frame_valid' =
                ~(/\ frame.endpoint_frame[1] # goal_state
                  /\ RLtScaled(dist2(curr_state, frame.endpoint_frame[1]), 25,
                               dist2(frame.waypoints[1], frame.endpoint_frame[1]))))]_vars

\* a control step found a shift frame invalid and rebuilt it
C9_Witness ==
    /\ frame.type = "shift"
    /\ last_op = "rebuild"
    /\ ~frame_valid
    /\ err = "none"

\* C10: a control step that finds the active frame invalid makes a stored
\* NextFrame the active frame, with its border, stationary obstacles and
\* endpoint, and stores the frame built from that endpoint, or none when the
\* endpoint is the goal; without a stored NextFrame it installs the frame
\* the builder makes from the current vehicle position
C10_PromoteOrRebuild ==
    [][(pc = "run" /\ steps' = steps + 1 /\ ~frame_valid' /\ err' = "none") =>
           IF next_frame.has /\ next_frame.val # <<>>
           THEN /\ frame'.border = next_frame.val[1].border
                /\ frame'.stationary_obstacles = next_frame.val[1].stationary_obstacles
                /\ frame'.endpoint_frame = next_frame.val[1].endpoint_frame
                /\ next_frame'.has
                /\ next_frame'.val =
                       IF next_frame.val[1].endpoint_frame[1] = goal_state THEN <<>>
                       ELSE create_next_frame(next_frame.val[1], global_path').next
           ELSE /\ frame'.border = create_frame(frame, next_frame, global_path').frame.border
                /\ frame'.endpoint_frame =
                       create_frame(frame, next_frame, global_path').frame.endpoint_frame
                /\ frame'.waypoints[1] = curr_state
                /\ next_frame' = create_frame(frame, next_frame, global_path').next]_vars

\* a control step promoted a NextFrame and stored a new one
C10_Witness ==
    /\ last_op = "promote"
    /\ ~frame_valid
    /\ err = "none"
    /\ next_frame.val # <<>>

\* the frame around p that get_min_nobs_frame starts from
seed_around(p) ==
    make_border(RSub(p[1], margin), RSub(p[2], margin), RAdd(p[1], margin), RAdd(p[2], margin))

\* the NextFrame built for the global path from the seed around p
next_frame_from_seed(p) ==
    next_frame_found(min_nobs_seeded(p, global_path, seed_around(p),
                                     closest_index(global_path, p, 1,
                                                   RMul(room_max, room_max), 1)),
                     global_path).next

\* C11: in min-nobs mode, after reinitialize and after every control step,
\* a NextFrame exists if and only if the endpoint of the active frame is not
\* the goal, and it is the frame built from the seed centred on that endpoint
C11_NextFrameFromEndpoint ==
    (pc \in {"run", "done"} /\ frame.type = "min_nobs") =>
        /\ next_frame.has
        /\ (next_frame.val # <<>>) <=> (frame.endpoint_frame[1] # goal_state)
        /\ next_frame.val # <<>> =>
               next_frame.val = next_frame_from_seed(frame.endpoint_frame[1])

\* a control step in min-nobs mode promoted the NextFrame and stored a new one
C11_Witness ==
    /\ pc = "run"
    /\ frame.type = "min_nobs"
    /\ last_op = "promote"
    /\ next_frame.val # <<>>

\* the limits after are at least as far out as the limits before
outward(before, after) ==
    /\ RLe(after[1], before[1])
    /\ RLe(after[2], before[2])
    /\ RLe(before[3], after[3])
    /\ RLe(before[4], after[4])

\* the limits of the frame get_min_nobs_frame passes to scale_up_frame when
\* it starts from p
unscaled_limits(p) == get_min_nobs_frame(p, global_path).frame.border[1].limits

\* C12: the border scale_up_frame returned for the active frame built by
\* reinitialize, and for every stored NextFrame, has each of its four
\* limits at least as far out as the border it was called with
C12_ScaleUpOutward ==
    /\ (pc = "run" /\ last_op = "reinitialize" /\ frame.type = "min_nobs") =>
           outward(unscaled_limits(curr_state), frame.border[1].limits)
    /\ (pc \in {"run", "done"} /\ frame.type = "min_nobs" /\ next_frame.val # <<>>) =>
           outward(unscaled_limits(frame.endpoint_frame[1]),
                   next_frame.val[1].border[1].limits)

\* half the resolution float_res of the modelled float divisions
half_res == <<1, 2 * float_res>>

\* q lies on the segment from a to b, up to the resolution of the floats:
\* the cross product of b - a and q - a is at most (|dx| + |dy|) * half_res
\* and q lies in the bounding box of a and b
on_segment(a, b, q) ==
    /\ RLe(RAbs(RSub(RMul(RSub(b[1], a[1]), RSub(q[2], a[2])),
                     RMul(RSub(b[2], a[2]), RSub(q[1], a[1])))),
           RMul(RAdd(RAbs(RSub(b[1], a[1])), RAbs(RSub(b[2], a[2]))), half_res))
    /\ RLe(RSub(RMin(a[1], b[1]), half_res), q[1])
    /\ RLe(q[1], RAdd(RMax(a[1], b[1]), half_res))
    /\ RLe(RSub(RMin(a[2], b[2]), half_res), q[2])
    /\ RLe(q[2], RAdd(RMax(a[2], b[2]), half_res))

\* the distance of q to the edge of the limits l that d, a component of
\* distance_to_border, points to: the min edge when d <= 0
distance_to_edge(q, l, d, axis) ==
    IF RLe(d, RZero) THEN RSub(q[axis], l[axis]) ELSE RSub(l[axis + 2], q[axis])

\* the frame f was built from the start p for the global path; s is the
\* scaled-up frame its reachability correction worked on.  When the last
\* waypoint of s was within veh_size of one edge and was relocated, the
\* last waypoint of f lies on the segment from the waypoint walk_back
\* stopped at to the old last waypoint, at veh_size*scale_factor from the edge
relocated_on_segment(s, f) ==
    LET w == s.waypoints
        d == distance_to_border(Last(w), s.border)
        count == walk_back(w, s.border, 1)
        axis == IF RLe(RAbs(d[1]), veh_size) THEN 1 ELSE 2
    IN  (RLe(RAbs(d[1]), veh_size) # RLe(RAbs(d[2]), veh_size) /\ count > 0) =>
            /\ on_segment(w[Len(w) - count], Last(w), Last(f.waypoints))
            /\ distance_to_edge(Last(f.waypoints), s.border.limits, d[axis], axis) = margin

\* the scaled-up frame of the builders for the start p
scaled_from(p) == scale_up_frame(get_min_nobs_frame(p, global_path).frame, global_path)

\* C13 for create_frame: the active frame built by reinitialize
C13_ActiveFrame ==
    (pc = "run" /\ last_op = "reinitialize" /\ frame.type = "min_nobs") =>
        relocated_on_segment(scaled_from(curr_state), frame)

\* C13 for create_next_frame: every stored NextFrame
C13_NextFrame ==
    (pc \in {"run", "done"} /\ frame.type = "min_nobs" /\ next_frame.val # <<>>) =>
        relocated_on_segment(scaled_from(frame.endpoint_frame[1]), next_frame.val[1])

\* C13: a terminal waypoint relocated by the reachability correction of
\* create_frame or of create_next_frame, for one border edge, lies on the
\* segment from the last far waypoint to the old terminal waypoint, at
\* exactly veh_size*scale_factor from that edge
C13_RelocatedWaypoint == C13_ActiveFrame /\ C13_NextFrame

\* the sum of the lengths of the segments of the polyline w from waypoint i
RECURSIVE polyline_length(_, _)
polyline_length(w, i) ==
    IF i >= Len(w) THEN RZero
    ELSE RAdd(RSqrt(dist2(w[i], w[i + 1])), polyline_length(w, i + 1))

\* C14: the motion time get_init_guess produced for the active frame times
\* 0.5 * vmax equals the cumulative length of the frame's waypoint polyline,
\* up to the resolution 1/sqrt_res of each modelled square root
C14_MotionTimeIsPathLength ==
    (pc = "run" /\ last_op \in {"reinitialize", "promote", "rebuild"}) =>
        RLe(RAbs(RSub(RMul(motion_time, RMul(R(vmax_tenths), half)),
                      polyline_length(frame.waypoints, 1))),
            RNorm(Len(frame.waypoints), sqrt_res))

\* a checkpoint of the obstacle o, moved at its velocity over the motion
\* time mt, is sampled inside the border
enters(o, border, mt) ==
    \E i \in 1..Len(checkpoints(o)) :
        point_in_frame_moving(checkpoints(o)[i], o.vel, border, mt, mt)

\* C15: after get_moving_obstacles_in_frame the moving obstacles stored in
\* the active frame are exactly the moving obstacles with a checkpoint that
\* is sampled inside the frame's border over the motion time
C15_MovingObstaclesEnterBorder ==
    pc = "run" =>
        frame.moving_obstacles =
            {i \in 1..Len(obstacles) :
                 is_moving(obstacles[i]) /\ enters(obstacles[i], frame.border[1], motion_time)}

\* C16: the sub-problem of the active frame enforces zero terminal velocity
\* if and only if the frame's endpoint is the goal
C16_TerminalVelocityIffGoal ==
    (pc = "run" /\ local_problem # <<>>) =>
        (local_problem[1].term <=> (frame.endpoint_frame[1] = goal_state))

\* the limits l with the side (1 xmin, 2 ymin, 3 xmax, 4 ymax) one
\* increment further out, and with the side on the environment boundary
one_increment(l, side) ==
    [l EXCEPT ![side] = IF side > 2 THEN RAdd(@, scale_step) ELSE RSub(@, scale_step)]

on_boundary(l, side) == [l EXCEPT ![side] = IF side > 2 THEN room_max ELSE room_min]

reaches_boundary(l, side) ==
    IF side > 2 THEN RLe(room_max, l[side]) ELSE RLe(l[side], room_min)

\* one edge advanced in increments from the limits l: it stops without
\* committing at the first increment that makes a stationary obstacle
\* overlap the frame, and on the boundary at the first one that reaches it
RECURSIVE advance_edge(_, _)
advance_edge(l, side) ==
    LET c == one_increment(l, side)
    IN  IF obstacles_in(make_border(c[1], c[2], c[3], c[4])) # {} THEN l
        ELSE IF reaches_boundary(c, side) THEN on_boundary(l, side)
        ELSE advance_edge(c, side)

\* the four edges in the order x+, x-, y+, y-, each from the limits the
\* previous direction committed
advance_edges(l) == advance_edge(advance_edge(advance_edge(advance_edge(l, 3), 1), 4), 2)

\* C17: the border scale_up_frame returned for the active frame built by
\* reinitialize, and for every stored NextFrame, has the limits that result
\* from advancing the edges x+, x-, y+, y- in turn by increments of 0.1,
\* each until the environment boundary is reached or an increment would
\* make a stationary obstacle overlap the frame
C17_ScaleUpByIncrements ==
    /\ (pc = "run" /\ last_op = "reinitialize" /\ frame.type = "min_nobs") =>
           frame.border[1].limits = advance_edges(unscaled_limits(curr_state))
    /\ (pc \in {"run", "done"} /\ frame.type = "min_nobs" /\ next_frame.val # <<>>) =>
           next_frame.val[1].border[1].limits =
               advance_edges(unscaled_limits(frame.endpoint_frame[1]))

\* the border b extended over the waypoints w[i..], each compared with the
\* waypoint before it (prev)
RECURSIVE extended_over(_, _, _, _)
extended_over(b, prev, w, i) ==
    IF i > Len(w) THEN b
    ELSE extended_over(IF point_in_frame(w[i], b, RZero) THEN b
                       ELSE update_frame_with_waypoint(b, prev, w[i]),
                       w[i], w, i + 1)

\* get_min_nobs_frame(p) for the global path goes through the absorption
\* of waypoints: the goal is outside the seed and the seed extended to the
\* goal holds a stationary obstacle
absorbs(p) ==
    /\ global_path # <<>>
    /\ shape_error = "none"
    /\ ~point_in_frame(Last(global_path), seed_around(p), RZero)
    /\ obstacles_in(update_frame_with_waypoint(seed_around(p), p, Last(global_path))) # {}

\* the absorption from the start p: the absorbed waypoints are a contiguous
\* run of the global path from the scan index, the border is the seed
\* extended over exactly these, the first waypoint left out is one whose
\* extension holds an obstacle, and there is an error exactly when no
\* waypoint was absorbed
absorbed_run(p) ==
    LET r == get_min_nobs_frame(p, global_path)
        w == r.frame.waypoints
        index == closest_index(global_path, p, 1, RMul(room_max, room_max), 1)
        first == global_path[index]
        nxt == global_path[index + Len(w)]
    IN  /\ (r.err # "none") <=>
               /\ ~point_in_frame(first, seed_around(p), RZero)
               /\ obstacles_in(update_frame_with_waypoint(seed_around(p), p, first)) # {}
        /\ r.err = "none" =>
               /\ w # <<>>
               /\ w = SubSeq(global_path, index, index + Len(w) - 1)
               /\ r.frame.border[1] = extended_over(seed_around(p), p, w, 1)
               /\ index + Len(w) <= Len(global_path) =>
                      /\ ~point_in_frame(nxt, r.frame.border[1], RZero)
                      /\ obstacles_in(update_frame_with_waypoint(r.frame.border[1],
                                                                 Last(w), nxt)) # {}

\* C18: every absorption of get_min_nobs_frame, for the active frame built
\* by reinitialize and for every NextFrame, stops at the first waypoint
\* whose extension of the border holds a stationary obstacle, with the
\* border as it was before that extension and a contiguous run of absorbed
\* waypoints, and fails when no waypoint was absorbed
C18_AbsorptionStopsAtObstacle ==
    /\ (pc \in {"run", "failed"} /\ last_op = "reinitialize" /\ frame.type = "min_nobs"
            /\ absorbs(curr_state)) => absorbed_run(curr_state)
    /\ (pc \in {"run", "done"} /\ frame.type = "min_nobs" /\ next_frame.val # <<>>
            /\ absorbs(frame.endpoint_frame[1])) => absorbed_run(frame.endpoint_frame[1])

\* reinitialize built a min-nobs frame through an absorption that stopped
\* before the end of the global path
C18_Witness ==
    /\ pc = "run"
    /\ last_op = "reinitialize"
    /\ frame.type = "min_nobs"
    /\ absorbs(curr_state)
    /\ Len(get_min_nobs_frame(curr_state, global_path).frame.waypoints) < Len(global_path)

\* the limits of the frame around the vehicle (lines 280-283)
centred_limits ==
    <<RSub(curr_state[1], half_size), RSub(curr_state[2], half_size),
      RAdd(curr_state[1], half_size), RAdd(curr_state[2], half_size)>>

\* the scan of the path p from the frame around the vehicle, and its
\* target: the waypoint out of reach or the goal within reach
scan_from_centre(p) ==
    shift_scan(p, 1, make_border(centred_limits[1], centred_limits[2],
                                 centred_limits[3], centred_limits[4]),
               [waypoint |-> <<>>, endpoint |-> <<>>, points |-> <<>>,
                delta |-> <<RZero, RZero>>])

shifts_frame(p) == scan_from_centre(p).waypoint # <<>> \/ scan_from_centre(p).endpoint # <<>>

\* a side moved from before to after for a target at the distance d: by at
\* most move_limit and in the direction of d
side_shifted(before, after, d) ==
    /\ RLe(RAbs(RSub(after, before)), move_limit)
    /\ RLe(RZero, d) => RLe(before, after)
    /\ RLe(d, RZero) => RLe(after, before)

\* the limits l are the centred limits displaced towards the target at
\* delta, each side by at most move_limit or up to the room's limit, and
\* lie inside the room
shifted_within(l, delta) ==
    /\ RLe(room_min, l[1]) /\ RLe(room_min, l[2])
    /\ RLe(l[3], room_max) /\ RLe(l[4], room_max)
    /\ l[1] = room_min \/ side_shifted(centred_limits[1], l[1], delta[1])
    /\ l[2] = room_min \/ side_shifted(centred_limits[2], l[2], delta[2])
    /\ l[3] = room_max \/ side_shifted(centred_limits[3], l[3], delta[1])
    /\ l[4] = room_max \/ side_shifted(centred_limits[4], l[4], delta[2])

\* the step builds a shift frame with create_frame: reinitialize, or an
\* update without a NextFrame
builds_shift_frame ==
    /\ frame.type = "shift"
    /\ \/ pc = "new"
       \/ pc = "run" /\ steps' = steps + 1 /\ last_op' = "rebuild"
    /\ err' = "none"

\* C19: every shift frame that create_frame builds after shifting has its
\* border displaced from the frame around the vehicle by at most
\* move_limit per axis, towards the target, and inside the room's limits
C19_ShiftWithinLimits ==
    [][(builds_shift_frame /\ shifts_frame(global_path'))
       => shifted_within(frame'.border[1].limits, scan_from_centre(global_path').delta)]_vars

\* the point where the line from the last waypoint in the frame to the
\* waypoint out of reach crosses the shifted border: <<>> or <<point>>
crossing_point(sc) ==
    find_intersection_line_frame(Last(sc.points), sc.waypoint[1],
                                 make_border(move_frame(sc.delta)[1], move_frame(sc.delta)[2],
                                             move_frame(sc.delta)[3], move_frame(sc.delta)[4]))

\* move_back exceeds the length of the segment from start to end: on an
\* axis-parallel segment move_back is the distance itself, on any other it
\* is distance * length / min(|dx|, |dy|)
pulled_past(start, end, distance) ==
    IF start[1] = end[1] \/ start[2] = end[2]
    THEN RLt(RAdd(RAbs(RSub(end[1], start[1])), RAbs(RSub(end[2], start[2]))), distance)
    ELSE RLt(RMin(RAbs(RSub(end[1], start[1])), RAbs(RSub(end[2], start[2]))), distance)

\* create_frame for the path p reaches shift_point_back with a pull-back
\* longer than the segment to the crossing point
clamps_length(p) ==
    /\ scan_from_centre(p).waypoint # <<>>
    /\ scan_from_centre(p).points # <<>>
    /\ crossing_point(scan_from_centre(p)) # <<>>
    /\ pulled_past(Last(scan_from_centre(p).points), crossing_point(scan_from_centre(p))[1],
                   margin)

\* the waypoints of a frame built from the list w: get_init_guess puts the
\* vehicle's position in the place of the first one (line 753)
started_at_vehicle(w) == [w EXCEPT ![1] = curr_state]

\* C20: every build of a shift frame in which the pull-back exceeds the
\* segment to the crossing point raises no error of its own, ends the frame
\* at the last waypoint inside the frame, and lists that waypoint once: the
\* frame's waypoints are the waypoints found inside the frame, nothing added
C20_ClampToLastWaypoint ==
    [][(frame.type = "shift"
            /\ (pc = "new" \/ (pc = "run" /\ steps' = steps + 1 /\ last_op' = "rebuild"))
            /\ clamps_length(global_path'))
       => /\ err' = shape_error
          /\ err' = "none" =>
                /\ frame'.endpoint_frame = <<Last(scan_from_centre(global_path').points)>>
                /\ frame'.waypoints = started_at_vehicle(scan_from_centre(global_path').points)]_vars

\* reinitialize built a shift frame whose pull-back was clamped
C20_Witness ==
    /\ pc = "run"
    /\ last_op = "reinitialize"
    /\ frame.type = "shift"
    /\ clamps_length(global_path)
    /\ frame.endpoint_frame = <<Last(frame.waypoints)>>

\* the point p moved at the velocity v for the time t lies within the
\* limits l, borders included
inside_at(p, v, t, l) ==
    /\ RLe(l[1], RAdd(p[1], RMul(t, v[1]))) /\ RLe(RAdd(p[1], RMul(t, v[1])), l[3])
    /\ RLe(l[2], RAdd(p[2], RMul(t, v[2]))) /\ RLe(RAdd(p[2], RMul(t, v[2])), l[4])

\* n equal steps from 0 to the horizon T are at most 0.5 long, and some
\* of the n+1 samples of p lies within the limits l
sampled_inside(p, v, T, l, n) ==
    \E k \in 0..n : inside_at(p, v, RDiv(RMul(R(k), T), R(n)), l)

\* the result r of the moving-point test for the horizon T is the test of
\* equally spaced samples over [0, T], both ends included, at most 0.5 apart
samples_horizon(r, p, v, T, l) ==
    \E n \in 1..(2 * (T[1] \div T[2]) + 3) :
        /\ RLe(RDiv(T, R(n)), half)
        /\ r <=> sampled_inside(p, v, T, l, n)

\* C21: in every call of get_moving_obstacles_in_frame the moving-point
\* test of each checkpoint of each moving obstacle is true exactly when one
\* of the equally spaced samples of its trajectory over [0, motion time],
\* at most 0.5 apart, lies within the border limits, borders included
C21_MovingPointSamples ==
    (pc = "run" /\ moving_call.n > 0) =>
        \A i \in 1..Len(obstacles) :
            is_moving(obstacles[i]) =>
                \A c \in 1..Len(checkpoints(obstacles[i])) :
                    samples_horizon(point_in_frame_moving(checkpoints(obstacles[i])[c],
                                                          obstacles[i].vel,
                                                          moving_call.border[1],
                                                          moving_call.mt, moving_call.mt),
                                    checkpoints(obstacles[i])[c], obstacles[i].vel,
                                    moving_call.mt, moving_call.border[1].limits)

\* a checkpoint of a moving obstacle starts outside the border and is
\* sampled inside it later
C21_Witness ==
    /\ pc = "run"
    /\ moving_call.n > 0
    /\ \E i \in 1..Len(obstacles) :
           /\ is_moving(obstacles[i])
           /\ \E c \in 1..Len(checkpoints(obstacles[i])) :
                  /\ ~inside_at(checkpoints(obstacles[i])[c], obstacles[i].vel, RZero,
                                moving_call.border[1].limits)
                  /\ point_in_frame_moving(checkpoints(obstacles[i])[c], obstacles[i].vel,
                                           moving_call.border[1],
                                           moving_call.mt, moving_call.mt)

\* C22: whenever the environment holds an obstacle whose shape is not
\* supported, stationary or not and wherever it lies, the construction,
\* which calls get_stationary_obstacles_in_frame for its first frame, fails
\* with an error
C22_UnsupportedShapeFails ==
    (last_op = "reinitialize" /\ \E i \in 1..Len(obstacles) : ~shape_supported(obstacles[i]))
        => (pc = "failed" /\ err # "none")

\* the index in the waypoints w of the last waypoint that is farther than
\* veh_size from the border on both axes, 0 when there is none
RECURSIVE last_far(_, _, _)
last_far(w, border, k) ==
    IF k = 0 THEN 0
    ELSE IF too_close(distance_to_border(w[k], border)) THEN last_far(w, border, k - 1)
    ELSE k

\* after is the list before with the waypoints behind index k replaced by
\* one point
tail_replaced(before, after, k) ==
    /\ Len(after) = k + 1
    /\ SubSeq(after, 1, k) = SubSeq(before, 1, k)

\* the frame f was made from the scaled-up border and waypoints s by the
\* correction: the border is the one of s, and the waypoints are those of s,
\* the ones behind the last far waypoint replaced by one point when the
\* last waypoint of s was too close to the border
kept_border(s, f, w) ==
    /\ f.border[1] = s.border
    /\ IF too_close(distance_to_border(Last(s.waypoints), s.border))
       THEN tail_replaced(s.waypoints, w, last_far(s.waypoints, s.border, Len(s.waypoints)))
       ELSE w = s.waypoints

\* the waypoints of the active frame as create_frame left them for the
\* scaled-up list w0: the frame's, with its first entry, which
\* get_init_guess set to the vehicle's position, taken from w0
before_guess(w0) == [frame.waypoints EXCEPT ![1] = w0[1]]

\* C23: the min-nobs reachability correction of the active frame built by
\* reinitialize and of every stored NextFrame keeps the border returned by
\* scale-up and the waypoints up to the last sufficiently far one, in their
\* order, and puts one point in the place of the waypoints behind it
C23_CorrectionKeepsBorder ==
    /\ (pc = "run" /\ last_op = "reinitialize" /\ frame.type = "min_nobs") =>
           kept_border(scaled_from(curr_state), frame,
                       before_guess(scaled_from(curr_state).waypoints))
    /\ (pc \in {"run", "done"} /\ frame.type = "min_nobs" /\ next_frame.val # <<>>) =>
           kept_border(scaled_from(frame.endpoint_frame[1]), next_frame.val[1],
                       next_frame.val[1].waypoints)

\* a stored NextFrame whose last waypoint was relocated
C23_Witness ==
    /\ pc = "run"
    /\ frame.type = "min_nobs"
    /\ next_frame.val # <<>>
    /\ too_close(distance_to_border(Last(scaled_from(frame.endpoint_frame[1]).waypoints),
                                    scaled_from(frame.endpoint_frame[1]).border))

\* C24: every control step that succeeds calls
\* get_moving_obstacles_in_frame once, and replaces the local problem by a
\* new one exactly when check_frame found the frame invalid or the call
\* reported a change; otherwise the local problem stays the same
C24_OneScanPerStep ==
    [][(pc = "run" /\ steps' = steps + 1 /\ pc' = "run")
       => /\ moving_call'.n = moving_call.n + 1
          /\ IF ~frame_valid' \/ moving_call'.changed
             THEN local_problem'[1].n = local_problem[1].n + 1
             ELSE local_problem' = local_problem]_vars

\* a step in a valid frame made a new local problem because the moving
\* obstacles changed
C24_Witness ==
    /\ pc = "run"
    /\ last_op = "valid"
    /\ frame_valid
    /\ moving_call.changed
    /\ local_problem[1].n > 1

\* C25: arrival has been reported only in states where the endpoint of the
\* active frame is the goal and the vehicle is at the goal of the local
\* problem, and stop_criterium is false in every state where the endpoint
\* of the active frame is not the goal
C25_ArrivalOnlyInLastFrame ==
    /\ pc = "done" => (frame.endpoint_frame = <<goal_state>> /\ curr_state = goal_state)
    /\ (pc = "run" /\ frame.endpoint_frame # <<goal_state>>) => ~stop_criterium

\* arrival was reported after at least one frame update
C25_Witness ==
    /\ pc = "done"
    /\ cnt > 1

\* the limits inner lie within the limits outer
contained(inner, outer) ==
    /\ RLe(outer[1], inner[1]) /\ RLe(outer[2], inner[2])
    /\ RLe(inner[3], outer[3]) /\ RLe(inner[4], outer[4])

\* every extension that the absorption of path[i..] commits, from the
\* border and the previous point prev, contains the border it extends
RECURSIVE extensions_grow(_, _, _, _)
committed_grows(path, i, border, ext) ==
    IF obstacles_in(ext) # {} THEN TRUE
    ELSE /\ contained(border.limits, ext.limits)
         /\ extensions_grow(path, i + 1, ext, path[i])

extensions_grow(path, i, border, prev) ==
    IF i > Len(path) THEN TRUE
    ELSE IF point_in_frame(path[i], border, RZero)
    THEN extensions_grow(path, i + 1, border, path[i])
    ELSE committed_grows(path, i, border, update_frame_with_waypoint(border, prev, path[i]))

\* the extensions get_min_nobs_frame commits from the start p: the one to
\* the goal, or else those of the absorption from the scan index
grows_from(p) ==
    IF point_in_frame(Last(global_path), seed_around(p), RZero) THEN TRUE
    ELSE IF absorbs(p)
    THEN extensions_grow(global_path,
                         closest_index(global_path, p, 1, RMul(room_max, room_max), 1),
                         seed_around(p), p)
    ELSE contained(seed_around(p).limits,
                   update_frame_with_waypoint(seed_around(p), p, Last(global_path)).limits)

\* C26: every extension of the border that get_min_nobs_frame commits, for
\* the active frame built by reinitialize and for every NextFrame, contains
\* the border before the extension
C26_ExtensionsOnlyGrow ==
    /\ (pc \in {"run", "failed"} /\ last_op = "reinitialize" /\ frame.type = "min_nobs"
            /\ shape_error = "none") => grows_from(curr_state)
    /\ (pc \in {"run", "done"} /\ frame.type = "min_nobs" /\ next_frame.val # <<>>)
            => grows_from(frame.endpoint_frame[1])

\* the border b is the rectangle of its own limits and lies within the room
rectangle_in_room(b) ==
    /\ b = make_border(b.limits[1], b.limits[2], b.limits[3], b.limits[4])
    /\ contained(b.limits, <<room_min, room_min, room_max, room_max>>)

\* C27: the border that scale_up_frame returned for the active min-nobs
\* frame and for every stored NextFrame is the rectangle of its four limits
\* and lies within the room's outer limits
C27_ScaledBorderInRoom ==
    (pc \in {"run", "done"} /\ frame.type = "min_nobs") =>
        \A i \in 1..Len(Committed) : rectangle_in_room(Committed[i].border[1])

\* C28: in every state of a min-nobs run where the endpoint of the active
\* frame is not the goal and the vehicle has reached that endpoint,
\* check_frame reports the frame invalid, so that the next step updates it
C28_EndpointReachedInvalidates ==
    (pc = "run" /\ frame.type = "min_nobs" /\ frame.endpoint_frame # <<goal_state>>
         /\ curr_state = frame.endpoint_frame[1])
        => ~check_frame(frame, next_frame)

\* get_init_guess has run on the frame that the last reinitialize or frame
\* update built: the call succeeded, or get_init_guess itself raised
guess_prepared ==
    /\ last_op \in {"reinitialize", "promote", "rebuild"}
    /\ \/ pc = "run"
       \/ pc = "failed" /\ err = "RuntimeError: prediction for goal = current position"

\* C29: once reinitialize or a frame update has prepared the initial guess,
\* which sets the first waypoint of the active frame to the vehicle's
\* position, the endpoint of the frame is still the last element of its
\* waypoint list, also when the list holds one waypoint
C29_EndpointIsLastWaypoint ==
    guess_prepared => frame.endpoint_frame = <<Last(frame.waypoints)>>

\* C30: no build of a min-nobs frame, by reinitialize or by a frame update,
\* ends with the backward walk of the reachability correction indexing
\* before the first waypoint of the frame: the walk always stops at a
\* waypoint that is farther than veh_size from the border on both axes
C30_WalkBackFindsWaypoint ==
    (pc = "failed" /\ frame.type = "min_nobs") => err # "IndexError"

====
